---------------------------- MODULE Spec2Model ----------------------------
(***************************************************************************)
(* Model of the PFMO data-collection backend: the record store of form     *)
(* submissions, the detailed-analytics aggregation of routers/dashboard.py *)
(* and the heuristic analysers of services/ai_service.py with the risk     *)
(* views of routers/ai_insights.py.                                        *)
(*                                                                         *)
(* Conventions.                                                            *)
(*  - Python strings are TLA+ strings; the string methods the code uses    *)
(*    (lower, title, replace, split, "in") are computed character by       *)
(*    character with Len and SubSeq.                                       *)
(*  - A JSON / column value is a record [t, s, n]: t is the Python type    *)
(*    ("none", "str", "int", "bool", "float"), s the text of a str, n the  *)
(*    number of an int, 0/1 of a bool, and hundredths of a float.          *)
(*  - A float is kept in hundredths (Scale), so 12500.0 is 1250000.        *)
(*  - A nested block is [kind, items]: kind "none" for a null column,      *)
(*    "dict" for a mapping whose items keep Python's insertion order.      *)
(*  - A Python dict built by the code is a sequence of [k, v] entries in   *)
(*    insertion order.                                                     *)
(*  - A function that can raise returns a record with a "raised" field.    *)
(***************************************************************************)
EXTENDS Integers, Sequences, FiniteSets, TLC

VARIABLES
    store,          \* the form_submissions table, in primary-key order
    nextId,         \* the next primary key the table hands out
    ai_service,     \* the AIService singleton: [openai_api_key, enabled]
    response,       \* the answer to the last request handled
    predict_calls,  \* log of the direct predict_facility_needs calls, in order
    requests,       \* the report requests in flight: position and locals of each
    forms           \* the forms table: [rows, next_id], and the engine's
                    \* foreign_keys setting

vars == <<store, nextId, ai_service, response, predict_calls, requests, forms>>

\* The forms an admin may create.
MaxForms == 2
FormIds == 1..MaxForms

\* The empty forms table of the default engine (DATABASE_URL is a SQLite
\* file, which does not enforce foreign keys), and of an engine that does.
NoForms(foreign_keys) == [rows |-> <<>>, next_id |-> 1, foreign_keys |-> foreign_keys]

\* The worker threads that serve report requests side by side.
MaxRequests == 2
RequestIds == 1..MaxRequests

\* A worker that serves no request.
Idle == [op |-> "none", pc |-> "idle", submissions |-> <<>>, i |-> 0,
         acc |-> [raised |-> FALSE], result |-> [op |-> "none"]]
NoRequests == [r \in RequestIds |-> Idle]

(***************************************************************************)
(* Bounds of the model.                                                    *)
(***************************************************************************)
MaxRecords == 2
MaxSubmits == 3

(***************************************************************************)
(* Python strings.                                                         *)
(***************************************************************************)
Scale == 100

LowerLetters == "abcdefghijklmnopqrstuvwxyz"
UpperLetters == "ABCDEFGHIJKLMNOPQRSTUVWXYZ"
DigitChars == "0123456789"

CharAt(s, i) == SubSeq(s, i, i)

IndexOf(c, alphabet) ==
    IF \E i \in 1..Len(alphabet) : CharAt(alphabet, i) = c
    THEN CHOOSE i \in 1..Len(alphabet) : CharAt(alphabet, i) = c
    ELSE 0

\* Lookup tables over the alphabets.
Chars(alphabet) == {CharAt(alphabet, i) : i \in 1..Len(alphabet)}
ToLower == [c \in Chars(UpperLetters) |-> CharAt(LowerLetters, IndexOf(c, UpperLetters))]
ToUpper == [c \in Chars(LowerLetters) |-> CharAt(UpperLetters, IndexOf(c, LowerLetters))]
DigitOf == [c \in Chars(DigitChars) |-> IndexOf(c, DigitChars) - 1]

IsLetter(c) == c \in DOMAIN ToLower \/ c \in DOMAIN ToUpper
IsDigit(c) == c \in DOMAIN DigitOf
IsSpace(c) == c = " "

LowerChar(c) == IF c \in DOMAIN ToLower THEN ToLower[c] ELSE c

UpperChar(c) == IF c \in DOMAIN ToUpper THEN ToUpper[c] ELSE c

\* str.lower()
RECURSIVE str_lower(_)
str_lower(s) ==
    IF s = "" THEN ""
    ELSE LowerChar(CharAt(s, 1)) \o str_lower(SubSeq(s, 2, Len(s)))

\* str.title(): a letter that follows a non-letter is upper-cased, any other
\* letter is lower-cased.
RECURSIVE TitleFrom(_, _)
TitleFrom(s, i) ==
    IF i > Len(s) THEN ""
    ELSE LET c == CharAt(s, i)
             startsWord == i = 1 \/ ~IsLetter(CharAt(s, i - 1))
         IN  (IF startsWord THEN UpperChar(c) ELSE LowerChar(c))
                 \o TitleFrom(s, i + 1)

str_title(s) == TitleFrom(s, 1)

\* str.replace(old, new) for a one-character old.
RECURSIVE str_replace(_, _, _)
str_replace(s, old, new) ==
    IF s = "" THEN ""
    ELSE (IF CharAt(s, 1) = old THEN new ELSE CharAt(s, 1))
             \o str_replace(SubSeq(s, 2, Len(s)), old, new)

\* sub in s
str_contains(sub, s) ==
    \E i \in 1..(Len(s) - Len(sub) + 1) : SubSeq(s, i, i + Len(sub) - 1) = sub

\* str.strip()
RECURSIVE str_strip(_)
str_strip(s) ==
    IF s = "" THEN ""
    ELSE IF IsSpace(CharAt(s, 1)) THEN str_strip(SubSeq(s, 2, Len(s)))
    ELSE IF IsSpace(CharAt(s, Len(s))) THEN str_strip(SubSeq(s, 1, Len(s) - 1))
    ELSE s

\* s.split()[0]: the first whitespace-delimited token; IndexError when the
\* string holds no token.
RECURSIVE TokenEnd(_, _)
TokenEnd(s, i) ==
    IF i > Len(s) \/ IsSpace(CharAt(s, i)) THEN i - 1 ELSE TokenEnd(s, i + 1)

split_first(s) ==
    LET t == str_strip(s)
    IN  IF t = "" THEN [raised |-> TRUE, s |-> ""]
        ELSE [raised |-> FALSE, s |-> SubSeq(t, 1, TokenEnd(t, 1))]

\* The value of a run of decimal digits.
RECURSIVE DigitsValue(_)
DigitsValue(s) ==
    IF s = "" THEN 0
    ELSE DigitsValue(SubSeq(s, 1, Len(s) - 1)) * 10
             + DigitOf[CharAt(s, Len(s))]

AllDigits(s) == \A i \in 1..Len(s) : IsDigit(CharAt(s, i))

IsSign(c) == c = "-" \/ c = "+"

Unsigned(s) == IF s # "" /\ IsSign(CharAt(s, 1)) THEN SubSeq(s, 2, Len(s)) ELSE s

SignOf(s) == IF s # "" /\ CharAt(s, 1) = "-" THEN -1 ELSE 1

\* int(s) for a str: surrounding whitespace, an optional sign, decimal digits;
\* anything else is a ValueError.
int_of_str(s) ==
    LET t == str_strip(s)
        u == Unsigned(t)
    IN  IF u # "" /\ AllDigits(u)
        THEN [raised |-> FALSE, n |-> SignOf(t) * DigitsValue(u)]
        ELSE [raised |-> TRUE, n |-> 0]

\* float(s) for a str, in hundredths: surrounding whitespace, an optional
\* sign, digits with at most one decimal point and at least one digit;
\* anything else is a ValueError.  Digits after the second decimal place are
\* below the model's resolution.
PointAt(s) == IndexOf(".", s)

float_of_str(s) ==
    LET t == str_strip(s)
        u == Unsigned(t)
        p == PointAt(u)
        whole == IF p = 0 THEN u ELSE SubSeq(u, 1, p - 1)
        frac == IF p = 0 THEN "" ELSE SubSeq(u, p + 1, Len(u))
        frac2 == SubSeq(frac \o "00", 1, 2)
    IN  IF AllDigits(whole) /\ AllDigits(frac) /\ (whole \o frac) # ""
        THEN [raised |-> FALSE,
              n |-> SignOf(t) * (DigitsValue(whole) * Scale + DigitsValue(frac2))]
        ELSE [raised |-> TRUE, n |-> 0]

\* float(s) is the NaN: the text, stripped and unsigned, reads "nan" in any
\* case.  float_of_str does not cover this literal; the callers that can meet
\* it ask here first.
float_is_nan(s) == str_lower(Unsigned(str_strip(s))) = "nan"

\* str(n) for an int.
RECURSIVE NatToStr(_)
NatToStr(n) ==
    IF n < 10 THEN CharAt(DigitChars, n + 1)
    ELSE NatToStr(n \div 10) \o CharAt(DigitChars, (n % 10) + 1)

IntToStr(n) == IF n < 0 THEN "-" \o NatToStr(-n) ELSE NatToStr(n)

\* str(x) for a float held in hundredths: 4.5 prints "4.5", 4.0 prints "4.0".
FloatToStr(h) ==
    LET a == IF h < 0 THEN -h ELSE h
        f == a % Scale
        fracText == IF f % 10 = 0 THEN NatToStr(f \div 10)
                    ELSE NatToStr(f \div 10) \o NatToStr(f % 10)
    IN  (IF h < 0 THEN "-" ELSE "") \o NatToStr(a \div Scale) \o "." \o fracText

\* ", ".join(list)
RECURSIVE str_join(_, _)
str_join(sep, list) ==
    IF list = <<>> THEN ""
    ELSE IF Len(list) = 1 THEN list[1]
    ELSE list[1] \o sep \o str_join(sep, Tail(list))


(***************************************************************************)
(* Python values, nested blocks and dicts.                                 *)
(***************************************************************************)
VNone == [t |-> "none", s |-> "", n |-> 0]
VStr(x) == [t |-> "str", s |-> x, n |-> 0]
VInt(x) == [t |-> "int", s |-> "", n |-> x]
VBool(b) == [t |-> "bool", s |-> "", n |-> IF b THEN 1 ELSE 0]
VFloat(h) == [t |-> "float", s |-> "", n |-> h]

\* bool(v): None, "", 0, 0.0 and False are falsy.
Truthy(v) ==
    CASE v.t = "none" -> FALSE
      [] v.t = "str" -> v.s # ""
      [] OTHER -> v.n # 0

\* v == "text"
EqStr(v, text) == v.t = "str" /\ v.s = text

\* str(v)
py_str(v) ==
    CASE v.t = "none" -> "None"
      [] v.t = "str" -> v.s
      [] v.t = "int" -> IntToStr(v.n)
      [] v.t = "bool" -> IF v.n = 1 THEN "True" ELSE "False"
      [] OTHER -> FloatToStr(v.n)

\* int(x) for a float: truncation towards zero.
TruncToInt(h) == IF h >= 0 THEN h \div Scale ELSE -((-h) \div Scale)

NoBlock == [kind |-> "none", items |-> <<>>]
Dict(items) == [kind |-> "dict", items |-> items]
KV(key, value) == [k |-> key, v |-> value]

IsDict(b) == b.kind = "dict"
\* "b and isinstance(b, dict)": a null block and an empty mapping are falsy.
BlockTruthy(b) == IsDict(b) /\ b.items # <<>>

\* b.get(key): the value under key, None when the key is absent.
BlockGet(b, key) ==
    IF \E i \in 1..Len(b.items) : b.items[i].k = key
    THEN b.items[CHOOSE i \in 1..Len(b.items) : b.items[i].k = key].v
    ELSE VNone

\* d.get(key, default) on a dict the code builds.
DictGet(d, key, default) ==
    IF \E i \in 1..Len(d) : d[i].k = key
    THEN d[CHOOSE i \in 1..Len(d) : d[i].k = key].v
    ELSE default

\* d[key] = value: an existing key keeps its position, a new key goes last.
DictPut(d, key, value) ==
    IF \E i \in 1..Len(d) : d[i].k = key
    THEN [i \in 1..Len(d) |-> IF d[i].k = key THEN KV(key, value) ELSE d[i]]
    ELSE Append(d, KV(key, value))

\* d[key] = d.get(key, 0) + amount
DictAdd(d, key, amount) == DictPut(d, key, DictGet(d, key, 0) + amount)

(***************************************************************************)
(* Users and the record store.                                             *)
(***************************************************************************)
Admin == [id |-> 1, role |-> "admin"]
Collector == [id |-> 2, role |-> "data_collector"]
Users == {Admin, Collector}
OtherCollector == [id |-> 3, role |-> "data_collector"]
AllUsers == Users \cup {OtherCollector}

\* A SubmissionCreate payload with every optional field left unset.
EmptyPayload ==
    [facility_name |-> VNone, state |-> VNone, lga |-> VNone,
     geopolitical_zone |-> VNone, assessment_type |-> VNone,
     has_health_workers |-> VNone, facility_condition |-> VNone,
     ownership_type |-> VNone, latitude |-> VNone, longitude |-> VNone,
     funding_data |-> NoBlock, impact_funding_data |-> NoBlock,
     infrastructure_data |-> NoBlock, human_resources_data |-> NoBlock,
     services_data |-> NoBlock, satisfaction_survey_data |-> NoBlock,
     issues |-> VNone, comments |-> VNone, form_id |-> VNone]

PayloadFields == DOMAIN EmptyPayload

\* FormSubmission(**submission_data) with the primary key and the collector.
\* The columns update_submission can write, with their defaults.
StatusDefaults ==
    [submission_status |-> VStr("pending"), sync_status |-> VStr("pending"),
     is_synced |-> VBool(FALSE)]

StatusFields == DOMAIN StatusDefaults

NewSubmission(payload, id, user) ==
    [f \in PayloadFields \cup StatusFields \cup {"id", "collector_id"} |->
        IF f = "id" THEN VInt(id)
        ELSE IF f = "collector_id" THEN VInt(user.id)
        ELSE IF f \in StatusFields THEN StatusDefaults[f]
        ELSE payload[f]]

\* FormSubmission.to_dict(): every key is present, a null column maps to None.
to_dict(sub) == [f \in DOMAIN sub |-> sub[f]]

\* submission_data.get(key, default): the default only stands in for an
\* absent key, never for a key whose value is None.
GetOr(d, key, default) == IF key \in DOMAIN d THEN d[key] ELSE default

\* A check that lets every signed-in user pass.
AnyRoleIsAdmin(user) == user.role \in {"admin", "data_collector"}

\* get_current_active_admin
IsAdmin(user) == user.role = "admin"

Forbidden(op) ==
    [op |-> op, status |-> 403, body |-> [detail |-> "Not enough permissions"]]
ServerError(op) ==
    [op |-> op, status |-> 500, body |-> [detail |-> "Internal Server Error"]]
Ok(op, body) == [op |-> op, status |-> 200, body |-> body]
NoResponse == [op |-> "none", status |-> 0, body |-> [detail |-> ""]]

\* The row of the forms table with this primary key: its index, or 0.
FormIndex(table, form_id) ==
    IF \E i \in 1..Len(table.rows) : table.rows[i].id = form_id
    THEN CHOOSE i \in 1..Len(table.rows) : table.rows[i].id = form_id
    ELSE 0

\* form_id = Column(Integer, ForeignKey("forms.id")): an engine that
\* enforces foreign keys refuses a form_id that names no form; a null
\* form_id refers to nothing.
ForeignKeyHolds(table, form_id) ==
    \/ ~table.foreign_keys
    \/ form_id.t = "none"
    \/ FormIndex(table, form_id.n) # 0

\* submit_form: the record is stored under a fresh primary key.  The
\* handler does not look the form up; a commit the engine refuses stores
\* nothing.
submit_form(user, payload) ==
    /\ Len(store) < MaxRecords
    /\ nextId <= MaxSubmits
    /\ store' = IF ForeignKeyHolds(forms, payload.form_id)
                THEN Append(store, NewSubmission(payload, nextId, user))
                ELSE store
    /\ nextId' = nextId + 1
    /\ UNCHANGED <<ai_service, response, predict_calls, requests, forms>>

(***************************************************************************)
(* get_detailed_analytics: the accumulators of one pass over the records.  *)
(***************************************************************************)
TopN == 10

\* round(a / b) to the nearest integer, ties to even, for b > 0.
RoundDiv(a, b) ==
    LET q == a \div b
        r == a % b
    IN  IF 2 * r < b THEN q
        ELSE IF 2 * r > b THEN q + 1
        ELSE IF q % 2 = 0 THEN q ELSE q + 1

\* A percentage that stands at 100 when there is nothing to divide by.
PercentageFullWhenEmpty(v, total) ==
    IF total > 0 THEN RoundDiv(v * 100 * Scale, total) ELSE 100 * Scale

\* round((v / total * 100) if total > 0 else 0, 2), in hundredths of a percent.
Percentage(v, total) == IF total > 0 THEN RoundDiv(v * 100 * Scale, total) ELSE 0

\* round((sum / n) if n > 0 else 0, 2) for a sum held in hundredths.
Average(sumH, n) == IF n > 0 THEN RoundDiv(sumH, n) ELSE 0

RECURSIVE SeqSum(_)
SeqSum(q) == IF q = <<>> THEN 0 ELSE Head(q) + SeqSum(Tail(q))

EmptyAcc ==
    [condition_counts |-> <<>>, ownership_counts |-> <<>>,
     assessment_type_counts |-> <<>>, has_health_workers_counts |-> <<>>,
     zone_counts |-> <<>>,
     bhcpf_facilities |-> 0, impact_facilities |-> 0,
     total_funding_amount |-> 0, funding_by_state |-> <<>>,
     has_power |-> 0, has_water |-> 0, has_internet |-> 0, has_pharmacy |-> 0,
     revitalization_count |-> 0,
     total_staff |-> 0, staff_by_type |-> <<>>, facilities_with_staff |-> 0,
     total_patients |-> 0, services_offered |-> <<>>,
     satisfaction_scores |-> <<>>, satisfaction_by_category |-> <<>>]

\* if sub.<field>: counts[sub.<field>] = counts.get(sub.<field>, 0) + 1
CountField(counts, value) ==
    IF Truthy(value) THEN DictAdd(counts, value.s, 1) ELSE counts

AccCategorical(acc, sub) ==
    [acc EXCEPT
        !.condition_counts = CountField(@, sub.facility_condition),
        !.ownership_counts = CountField(@, sub.ownership_type),
        !.assessment_type_counts = CountField(@, sub.assessment_type),
        !.has_health_workers_counts = CountField(@, sub.has_health_workers),
        !.zone_counts = CountField(@, sub.geopolitical_zone)]

\* block.get(flagKey) == 'Yes' or block.get(aliasKey)
Signal(block, flagKey, aliasKey) ==
    EqStr(BlockGet(block, flagKey), "Yes") \/ Truthy(BlockGet(block, aliasKey))

\* A parse that leaves the thousands separators in.
ParseAmountKeepCommas(v) == float_of_str(py_str(v))

\* float(str(amount).replace(',', ''))
ParseAmount(v) == float_of_str(str_replace(py_str(v), ",", ""))

AccFunding(acc, sub) ==
    LET fd == sub.funding_data
        amountV == BlockGet(fd, "amount")
        parsed == ParseAmount(amountV)
        a1 == IF Signal(fd, "bhcpf_received", "has_bhcpf")
              THEN [acc EXCEPT !.bhcpf_facilities = @ + 1] ELSE acc
        a2 == IF Truthy(amountV) /\ ~parsed.raised
              THEN [a1 EXCEPT
                      !.total_funding_amount = @ + parsed.n,
                      !.funding_by_state =
                          IF Truthy(sub.state)
                          THEN DictAdd(@, sub.state.s, parsed.n) ELSE @]
              ELSE a1
    IN  IF BlockTruthy(fd) THEN a2 ELSE acc

AccImpactFunding(acc, sub) ==
    IF BlockTruthy(sub.impact_funding_data)
       /\ Signal(sub.impact_funding_data, "received", "has_impact_funding")
    THEN [acc EXCEPT !.impact_facilities = @ + 1]
    ELSE acc

AccInfrastructure(acc, sub) ==
    LET b == sub.infrastructure_data
        Inc(flagKey, aliasKey) == IF Signal(b, flagKey, aliasKey) THEN 1 ELSE 0
    IN  IF BlockTruthy(b)
        THEN [acc EXCEPT
                !.has_power = @ + Inc("has_power", "power_available"),
                !.has_water = @ + Inc("has_water", "water_available"),
                !.has_internet = @ + Inc("has_internet", "internet_available"),
                !.has_pharmacy = @ + Inc("has_pharmacy", "pharmacy_available"),
                !.revitalization_count = @ + Inc("revitalization", "revitalized")]
        ELSE acc

\* int(str(value).split()[0]) if isinstance(value, str) else int(value)
ParseCount(v) ==
    CASE v.t = "str" ->
            LET tok == split_first(v.s)
            IN  IF tok.raised THEN [raised |-> TRUE, n |-> 0]
                ELSE int_of_str(tok.s)
      [] v.t = "none" -> [raised |-> TRUE, n |-> 0]
      [] v.t = "float" -> [raised |-> FALSE, n |-> TruncToInt(v.n)]
      [] OTHER -> [raised |-> FALSE, n |-> v.n]

AnyMarker(markers, key) ==
    LET lowered == str_lower(key) IN \E m \in markers : str_contains(m, lowered)

StaffMarkers == {"staff", "personnel", "worker"}

\* key.replace('_', ' ').title()
Readable(key) == str_title(str_replace(key, "_", " "))


\* A staff loop whose except branch books the key with a count of 0.
StaffKeyStepZeroOnError(st, key, value) ==
    LET parsed == ParseCount(value)
        n == IF parsed.raised THEN 0 ELSE parsed.n
    IN  IF AnyMarker(StaffMarkers, key)
        THEN [count |-> st.count + n,
              by_type |-> DictAdd(st.by_type, Readable(key), n)]
        ELSE st

\* One key of the human-resources block (the body of the for loop): st is
\* [count, by_type], the record's running staff count and staff_by_type.
StaffKeyStep(st, key, value) ==
    LET parsed == ParseCount(value)
    IN  IF AnyMarker(StaffMarkers, key) /\ ~parsed.raised
        THEN [count |-> st.count + parsed.n,
              by_type |-> DictAdd(st.by_type, Readable(key), parsed.n)]
        ELSE st

RECURSIVE StaffLoop(_, _, _)
StaffLoop(st, items, i) ==
    IF i > Len(items) THEN st
    ELSE StaffLoop(StaffKeyStep(st, items[i].k, items[i].v), items, i + 1)

AccHumanResources(acc, sub) ==
    LET b == sub.human_resources_data
        st == StaffLoop([count |-> 0, by_type |-> acc.staff_by_type], b.items, 1)
    IN  IF BlockTruthy(b)
        THEN [acc EXCEPT
                !.staff_by_type = st.by_type,
                !.total_staff = IF st.count > 0 THEN @ + st.count ELSE @,
                !.facilities_with_staff = IF st.count > 0 THEN @ + 1 ELSE @]
        ELSE acc

PatientMarkers == {"patient", "attendance", "utilization"}

\* One key of the first loop over the services block.
PatientKeyStep(total, key, value) ==
    LET parsed == ParseCount(value)
    IN  IF AnyMarker(PatientMarkers, key) /\ ~parsed.raised
        THEN total + parsed.n ELSE total

RECURSIVE PatientLoop(_, _, _)
PatientLoop(total, items, i) ==
    IF i > Len(items) THEN total
    ELSE PatientLoop(PatientKeyStep(total, items[i].k, items[i].v), items, i + 1)

OfferedWords == {"yes", "true", "available"}

\* One key of the second loop over the services block.
ServiceKeyStep(offered, key, value) ==
    IF value.t = "str" /\ str_lower(value.s) \in OfferedWords
    THEN DictAdd(offered, Readable(key), 1)
    ELSE offered

RECURSIVE ServiceLoop(_, _, _)
ServiceLoop(offered, items, i) ==
    IF i > Len(items) THEN offered
    ELSE ServiceLoop(ServiceKeyStep(offered, items[i].k, items[i].v), items, i + 1)

AccServices(acc, sub) ==
    LET b == sub.services_data
    IN  IF BlockTruthy(b)
        THEN [acc EXCEPT
                !.total_patients = PatientLoop(@, b.items, 1),
                !.services_offered = ServiceLoop(@, b.items, 1)]
        ELSE acc

ScoreMarkers == {"satisfaction", "rating", "score"}

\* float(value) if isinstance(value, (int, float)) else float(str(value).split()[0])
ParseScore(v) ==
    IF v.t \in {"int", "bool"} THEN [raised |-> FALSE, n |-> v.n * Scale]
    ELSE IF v.t = "float" THEN [raised |-> FALSE, n |-> v.n]
    ELSE LET tok == split_first(py_str(v))
         IN  IF tok.raised THEN [raised |-> TRUE, n |-> 0]
             ELSE float_of_str(tok.s)

\* One key of the satisfaction block: sc is [scores, by_category].
ScoreKeyStep(sc, key, value) ==
    LET parsed == ParseScore(value)
        category == Readable(key)
    IN  IF AnyMarker(ScoreMarkers, key) /\ ~parsed.raised
        THEN [scores |-> Append(sc.scores, parsed.n),
              by_category |->
                  DictPut(sc.by_category, category,
                          Append(DictGet(sc.by_category, category, <<>>), parsed.n))]
        ELSE sc

RECURSIVE ScoreLoop(_, _, _)
ScoreLoop(sc, items, i) ==
    IF i > Len(items) THEN sc
    ELSE ScoreLoop(ScoreKeyStep(sc, items[i].k, items[i].v), items, i + 1)

AccSatisfaction(acc, sub) ==
    LET b == sub.satisfaction_survey_data
        sc == ScoreLoop([scores |-> acc.satisfaction_scores,
                         by_category |-> acc.satisfaction_by_category], b.items, 1)
    IN  IF BlockTruthy(b)
        THEN [acc EXCEPT
                !.satisfaction_scores = sc.scores,
                !.satisfaction_by_category = sc.by_category]
        ELSE acc

\* A pass that leaves a record as soon as its funding block is missing.
ProcessSubmissionSkipUnfunded(acc, sub) ==
    IF ~BlockTruthy(sub.funding_data) THEN AccCategorical(acc, sub)
    ELSE AccSatisfaction(
            AccServices(
                AccHumanResources(
                    AccInfrastructure(
                        AccImpactFunding(
                            AccFunding(
                                AccCategorical(acc, sub), sub), sub), sub), sub), sub), sub)

\* The body of "for sub in submissions".
ProcessSubmission(acc, sub) ==
    AccSatisfaction(
        AccServices(
            AccHumanResources(
                AccInfrastructure(
                    AccImpactFunding(
                        AccFunding(
                            AccCategorical(acc, sub), sub), sub), sub), sub), sub), sub)

RECURSIVE ScanFrom(_, _, _)
ScanFrom(acc, submissions, i) ==
    IF i > Len(submissions) THEN acc
    ELSE ScanFrom(ProcessSubmission(acc, submissions[i]), submissions, i + 1)

Scan(submissions) == ScanFrom(EmptyAcc, submissions, 1)

\* An insertion that puts an entry before the entries of equal value.
RECURSIVE InsertDescTiesReversed(_, _)
InsertDescTiesReversed(sorted, e) ==
    IF sorted = <<>> THEN <<e>>
    ELSE IF Head(sorted).v > e.v
    THEN <<Head(sorted)>> \o InsertDescTiesReversed(Tail(sorted), e)
    ELSE <<e>> \o sorted

\* sorted(d.items(), key=lambda x: x[1], reverse=True): a stable sort, equal
\* values keep their insertion order.
RECURSIVE InsertDesc(_, _)
InsertDesc(sorted, e) ==
    IF sorted = <<>> THEN <<e>>
    ELSE IF Head(sorted).v >= e.v THEN <<Head(sorted)>> \o InsertDesc(Tail(sorted), e)
    ELSE <<e>> \o sorted

RECURSIVE SortedDescFrom(_, _, _)
SortedDescFrom(sorted, d, i) ==
    IF i > Len(d) THEN sorted
    ELSE SortedDescFrom(InsertDesc(sorted, d[i]), d, i + 1)

SortedDesc(d) == SortedDescFrom(<<>>, d, 1)

\* sorted(...)[:10]
Top(d) == SubSeq(SortedDesc(d), 1, IF Len(d) < TopN THEN Len(d) ELSE TopN)

WithPercentage(d, total) ==
    [i \in 1..Len(d) |->
        [k |-> d[i].k, count |-> d[i].v, percentage |-> Percentage(d[i].v, total)]]

CountOnly(d) == [i \in 1..Len(d) |-> [k |-> d[i].k, count |-> d[i].v]]

\* s.facility_condition and s.ownership_type
IsComplete(sub) == Truthy(sub.facility_condition) /\ Truthy(sub.ownership_type)

CompleteCount(submissions) ==
    Cardinality({i \in 1..Len(submissions) : IsComplete(submissions[i])})

\* The returned report.  Amounts, averages and percentages are in hundredths.
Report(acc, submissions) ==
    LET total == Len(submissions)
    IN  [facility_analysis |->
            [condition_distribution |-> WithPercentage(acc.condition_counts, total),
             ownership_distribution |-> WithPercentage(acc.ownership_counts, total),
             assessment_type_distribution |-> CountOnly(acc.assessment_type_counts),
             health_workers_distribution |->
                 WithPercentage(acc.has_health_workers_counts, total),
             geopolitical_zone_distribution |-> CountOnly(acc.zone_counts)],
         funding_analysis |->
            [bhcpf_facilities |-> acc.bhcpf_facilities,
             bhcpf_percentage |-> Percentage(acc.bhcpf_facilities, total),
             impact_facilities |-> acc.impact_facilities,
             impact_percentage |-> Percentage(acc.impact_facilities, total),
             total_funding_amount |-> acc.total_funding_amount,
             average_funding_per_facility |-> Average(acc.total_funding_amount, total),
             funding_by_state |-> Top(acc.funding_by_state)],
         infrastructure_analysis |->
            [facilities_with_power |-> acc.has_power,
             power_percentage |-> Percentage(acc.has_power, total),
             facilities_with_water |-> acc.has_water,
             water_percentage |-> Percentage(acc.has_water, total),
             facilities_with_internet |-> acc.has_internet,
             internet_percentage |-> Percentage(acc.has_internet, total),
             facilities_with_pharmacy |-> acc.has_pharmacy,
             pharmacy_percentage |-> Percentage(acc.has_pharmacy, total),
             revitalized_facilities |-> acc.revitalization_count,
             revitalization_percentage |-> Percentage(acc.revitalization_count, total)],
         human_resources_analysis |->
            [total_staff |-> acc.total_staff,
             facilities_with_staff |-> acc.facilities_with_staff,
             average_staff_per_facility |->
                 Average(acc.total_staff * Scale, acc.facilities_with_staff),
             staff_by_type |-> CountOnly(Top(acc.staff_by_type))],
         services_utilization |->
            [total_patients |-> acc.total_patients,
             average_patients_per_facility |-> Average(acc.total_patients * Scale, total),
             top_services_offered |-> WithPercentage(Top(acc.services_offered), total)],
         patient_satisfaction |->
            [average_score |->
                 Average(SeqSum(acc.satisfaction_scores), Len(acc.satisfaction_scores)),
             total_responses |-> Len(acc.satisfaction_scores),
             scores_by_category |->
                 [i \in 1..Len(acc.satisfaction_by_category) |->
                     [k |-> acc.satisfaction_by_category[i].k,
                      average |-> Average(SeqSum(acc.satisfaction_by_category[i].v),
                                          Len(acc.satisfaction_by_category[i].v)),
                      count |-> Len(acc.satisfaction_by_category[i].v)]]],
         summary |->
            [total_facilities |-> total,
             facilities_with_complete_data |-> CompleteCount(submissions),
             data_completeness_percentage |->
                 Percentage(CompleteCount(submissions), total)]]

\* GET /detailed-analytics.  The body keeps the record set the report was
\* computed from beside the report.
get_detailed_analytics(user) ==
    /\ response' =
          IF ~IsAdmin(user) THEN Forbidden("detailed_analytics")
          ELSE Ok("detailed_analytics",
                  [report |-> Report(Scan(store), store), submissions |-> store])
    /\ UNCHANGED <<store, nextId, ai_service, predict_calls, requests, forms>>


(***************************************************************************)
(* AIService.predict_facility_needs.  A result is [raised, priority_level, *)
(* predicted_needs, risk_factors, recommendations]; once raised is TRUE    *)
(* the call has ended in an exception and the other fields mean nothing.   *)
(***************************************************************************)
MaxCalls == 3
MinStaff == 5

\* A predictions dict that outlives the call: each call starts from the lists
\* the call before it left behind.
NewPredictionsShared ==
    IF predict_calls # <<>> /\ ~predict_calls[Len(predict_calls)].result.raised
    THEN [predict_calls[Len(predict_calls)].result EXCEPT !.priority_level = "medium"]
    ELSE [raised |-> FALSE, priority_level |-> "medium", predicted_needs |-> <<>>,
          risk_factors |-> <<>>, recommendations |-> <<>>]

\* The predictions dict each call builds afresh.
NewPredictions ==
    [raised |-> FALSE, priority_level |-> "medium", predicted_needs |-> <<>>,
     risk_factors |-> <<>>, recommendations |-> <<>>]

Raised(p) == [p EXCEPT !.raised = TRUE]

AddFinding(p, risks, need, recommendation) ==
    [p EXCEPT !.risk_factors = @ \o risks,
              !.predicted_needs = Append(@, need),
              !.recommendations = Append(@, recommendation)]

BadConditions == {"poor", "critical"}

\* condition = submission_data.get("facility_condition", "").lower(): None has
\* no lower(), an AttributeError.
ConditionRule(p, d) ==
    LET v == GetOr(d, "facility_condition", VStr(""))
    IN  IF v.t # "str" THEN Raised(p)
        ELSE IF str_lower(v.s) \in BadConditions
        THEN [AddFinding(p, <<"Poor facility condition">>, "Infrastructure improvement",
                         "Prioritize facility rehabilitation")
                 EXCEPT !.priority_level = "high"]
        ELSE p

PredictStaffMarkers == {"staff", "personnel"}

\* int(str(v).split()[0]) if isinstance(v, (str, int)) else 0; a bool is an int.
StaffTerm(v) ==
    IF v.t \in {"str", "int", "bool"}
    THEN LET tok == split_first(py_str(v))
         IN  IF tok.raised THEN [raised |-> TRUE, n |-> 0] ELSE int_of_str(tok.s)
    ELSE [raised |-> FALSE, n |-> 0]

\* sum(... for k, v in hr_data.items() if <marker in k.lower()>)
RECURSIVE StaffSum(_, _, _)
StaffSum(total, items, i) ==
    IF i > Len(items) THEN [raised |-> FALSE, n |-> total]
    ELSE IF ~AnyMarker(PredictStaffMarkers, items[i].k) THEN StaffSum(total, items, i + 1)
    ELSE LET term == StaffTerm(items[i].v)
         IN  IF term.raised THEN [raised |-> TRUE, n |-> 0]
             ELSE StaffSum(total + term.n, items, i + 1)

StaffingRule(p, d) ==
    LET hr == GetOr(d, "human_resources_data", Dict(<<>>))
        total_staff == StaffSum(0, hr.items, 1)
    IN  IF p.raised \/ ~IsDict(hr) THEN p
        ELSE IF total_staff.raised THEN Raised(p)
        ELSE IF total_staff.n < MinStaff
        THEN AddFinding(p, <<"Insufficient staffing">>, "Additional healthcare workers",
                        "Recruit and train more staff")
        ELSE p

FundingRule(p, d) ==
    LET fd == GetOr(d, "funding_data", Dict(<<>>))
        has_funding == EqStr(BlockGet(fd, "bhcpf_status"), "Received")
                           \/ Truthy(BlockGet(fd, "has_bhcpf"))
    IN  IF p.raised \/ ~IsDict(fd) \/ has_funding THEN p
        ELSE AddFinding(p, <<"Lack of funding">>, "Financial support",
                        "Apply for BHCPF or IMPACT funding")

InfrastructureRule(p, d) ==
    LET infra == GetOr(d, "infrastructure_data", Dict(<<>>))
        p1 == IF Signal(infra, "has_power", "power_available") THEN p
              ELSE AddFinding(p, <<>>, "Power supply",
                              "Install or repair power infrastructure")
        p2 == IF Signal(infra, "has_water", "water_available") THEN p1
              ELSE AddFinding(p1, <<>>, "Water supply", "Ensure reliable water access")
    IN  IF p.raised \/ ~IsDict(infra) THEN p ELSE p2

predict_facility_needs(self, submission_data) ==
    InfrastructureRule(
        FundingRule(
            StaffingRule(
                ConditionRule(NewPredictions, submission_data),
                submission_data),
            submission_data),
        submission_data)

(***************************************************************************)
(* AIService.detect_data_anomalies: the ordered list of findings.          *)
(***************************************************************************)
CriticalFields == <<"facility_name", "state", "lga", "facility_condition">>

\* A test that only takes None for missing.
IsMissingNoneOnly(v) == v.t = "none"

\* not submission_data.get(field)
IsMissing(v) == ~Truthy(v)

MissingFinding(field) ==
    [type |-> "missing_data", field |-> field, severity |-> "high",
     message |-> "Missing critical field: " \o field]

RECURSIVE MissingFindings(_, _)
MissingFindings(d, i) ==
    IF i > Len(CriticalFields) THEN <<>>
    ELSE (IF IsMissing(GetOr(d, CriticalFields[i], VNone))
          THEN <<MissingFinding(CriticalFields[i])>> ELSE <<>>)
             \o MissingFindings(d, i + 1)

\* The bounding box of Nigeria, in hundredths of a degree.
NigeriaBox ==
    [lat_min |-> 4 * Scale, lat_max |-> 14 * Scale,
     lon_min |-> 2 * Scale, lon_max |-> 15 * Scale]

OutsideBox(lat, lon) ==
    ~(NigeriaBox.lat_min <= lat /\ lat <= NigeriaBox.lat_max)
        \/ ~(NigeriaBox.lon_min <= lon /\ lon <= NigeriaBox.lon_max)

\* if lat and lon: ...
LocationFindings(d) ==
    LET lat == GetOr(d, "latitude", VNone)
        lon == GetOr(d, "longitude", VNone)
    IN  IF Truthy(lat) /\ Truthy(lon) /\ OutsideBox(lat.n, lon.n)
        THEN <<[type |-> "invalid_location", field |-> "coordinates",
                severity |-> "medium",
                message |-> "Coordinates (" \o FloatToStr(lat.n) \o ", "
                                \o FloatToStr(lon.n) \o ") appear to be outside Nigeria"]>>
        ELSE <<>>

ConsistencyFindings(d) ==
    LET hr == GetOr(d, "human_resources_data", Dict(<<>>))
    IN  IF EqStr(GetOr(d, "has_health_workers", VNone), "No") /\ IsDict(hr)
           /\ \E i \in 1..Len(hr.items) : Truthy(hr.items[i].v)
        THEN <<[type |-> "inconsistency", field |-> "health_workers",
                severity |-> "medium",
                message |-> "Form indicates no health workers but HR data exists"]>>
        ELSE <<>>

detect_data_anomalies(self, submission_data) ==
    MissingFindings(submission_data, 1)
        \o LocationFindings(submission_data)
        \o ConsistencyFindings(submission_data)

(***************************************************************************)
(* AIService.generate_insights_summary: [raised, text].                    *)
(***************************************************************************)
generate_insights_summary(self, submission_data) ==
    LET facility_name == GetOr(submission_data, "facility_name", VStr("Unknown Facility"))
        state == GetOr(submission_data, "state", VStr("Unknown State"))
        condition == GetOr(submission_data, "facility_condition", VStr("Unknown"))
        predictions == predict_facility_needs(self, submission_data)
        anomalies == detect_data_anomalies(self, submission_data)
        summary_parts ==
            <<"Facility: " \o py_str(facility_name) \o " in " \o py_str(state),
              "Condition: " \o py_str(condition)>>
            \o (IF predictions.risk_factors # <<>>
                THEN <<"Risk Factors: " \o str_join(", ", predictions.risk_factors)>>
                ELSE <<>>)
            \o (IF predictions.predicted_needs # <<>>
                THEN <<"Predicted Needs: " \o str_join(", ", predictions.predicted_needs)>>
                ELSE <<>>)
            \o (IF anomalies # <<>>
                THEN <<"Data Quality Issues: " \o IntToStr(Len(anomalies))
                           \o " anomalies detected">>
                ELSE <<>>)
    IN  IF predictions.raised THEN [raised |-> TRUE, text |-> ""]
        ELSE [raised |-> FALSE, text |-> str_join(". ", summary_parts) \o "."]

(***************************************************************************)
(* AIService.analyze_issues_and_comments and _basic_text_analysis.         *)
(***************************************************************************)
SummaryLimit == 200
HighPriorityAbove == 3

negative_keywords ==
    <<"problem", "issue", "broken", "missing", "urgent", "critical", "poor",
      "bad", "lack", "no">>
positive_keywords ==
    <<"good", "excellent", "working", "available", "complete", "satisfied">>

topic_keywords ==
    <<[topic |-> "infrastructure",
       keywords |-> <<"power", "water", "building", "facility", "structure">>],
      [topic |-> "staffing",
       keywords |-> <<"staff", "worker", "personnel", "doctor", "nurse">>],
      [topic |-> "funding",
       keywords |-> <<"money", "budget", "funding", "financial", "cost">>],
      [topic |-> "equipment", keywords |-> <<"equipment", "machine", "device", "tool">>],
      [topic |-> "supplies",
       keywords |-> <<"supply", "commodity", "medicine", "drug", "stock">>],
      [topic |-> "services", keywords |-> <<"service", "patient", "treatment", "care">>]>>

\* sum(1 for word in keywords if word in text_lower)
KeywordCount(keywords, text_lower) ==
    Cardinality({i \in 1..Len(keywords) : str_contains(keywords[i], text_lower)})

\* A threshold one lower: three negative keywords already give "high".
NegativePriorityFromThree(negative_count) ==
    IF negative_count >= HighPriorityAbove THEN "high" ELSE "medium"

\* "high" if negative_count > 3 else "medium"
NegativePriority(negative_count) ==
    IF negative_count > HighPriorityAbove THEN "high" ELSE "medium"

RECURSIVE TopicsFrom(_, _)
TopicsFrom(text_lower, i) ==
    IF i > Len(topic_keywords) THEN <<>>
    ELSE (IF \E j \in 1..Len(topic_keywords[i].keywords) :
                 str_contains(topic_keywords[i].keywords[j], text_lower)
          THEN <<topic_keywords[i].topic>> ELSE <<>>)
             \o TopicsFrom(text_lower, i + 1)

_basic_text_analysis(self, text) ==
    LET text_lower == str_lower(text)
        negative_count == KeywordCount(negative_keywords, text_lower)
        positive_count == KeywordCount(positive_keywords, text_lower)
        sentiment == IF negative_count > positive_count THEN "negative"
                     ELSE IF positive_count > negative_count THEN "positive"
                     ELSE "neutral"
        priority == IF negative_count > positive_count
                    THEN NegativePriority(negative_count)
                    ELSE IF positive_count > negative_count THEN "low"
                    ELSE "medium"
        topics == TopicsFrom(text_lower, 1)
    IN  [sentiment |-> sentiment,
         topics |-> IF topics # <<>> THEN topics ELSE <<"general">>,
         priority |-> priority,
         insights |-> <<"Detected " \o sentiment \o " sentiment with "
                           \o IntToStr(Len(topics)) \o " key topics">>,
         summary |-> IF Len(text) > SummaryLimit
                     THEN SubSeq(text, 1, SummaryLimit) \o "..." ELSE text]

\* The call falls through to the keyword analysis whether or not a key is set.
_analyze_with_openai(self, text) == _basic_text_analysis(self, text)

\* x or ''
OrEmpty(v) == IF Truthy(v) THEN v.s ELSE ""

analyze_issues_and_comments(self, issues, comments) ==
    IF ~Truthy(issues) /\ ~Truthy(comments)
    THEN [sentiment |-> "neutral", topics |-> <<>>, priority |-> "low",
          insights |-> <<>>, summary |-> "No issues or comments provided"]
    ELSE LET combined_text == str_strip(OrEmpty(issues) \o " " \o OrEmpty(comments))
         IN  IF self.enabled THEN _analyze_with_openai(self, combined_text)
             ELSE _basic_text_analysis(self, combined_text)

\* A direct call of ai_service.analyze_issues_and_comments.
call_analyze_issues_and_comments(issues, comments) ==
    /\ response' = [op |-> "analyze_issues_and_comments", status |-> 0,
                    body |-> [issues |-> issues, comments |-> comments,
                              result |-> analyze_issues_and_comments(
                                             ai_service, issues, comments)]]
    /\ UNCHANGED <<store, nextId, ai_service, predict_calls, requests, forms>>

(***************************************************************************)
(* AIService.analyze_patient_satisfaction.  Scores are in hundredths.      *)
(***************************************************************************)
\* The finite scores of the list: numbers as they are, strings through
\* float(value) with the failures passed over, anything else ignored.
RECURSIVE SurveyScores(_, _)
SurveyScores(items, i) ==
    IF i > Len(items) THEN <<>>
    ELSE LET v == items[i].v
             parsed == float_of_str(v.s)
         IN  (IF v.t \in {"int", "bool"} THEN <<v.n * Scale>>
              ELSE IF v.t = "float" THEN <<v.n>>
              ELSE IF v.t = "str" /\ ~parsed.raised THEN <<parsed.n>>
              ELSE <<>>) \o SurveyScores(items, i + 1)

\* The number of scores of the list that are the NaN: float("nan") succeeds.
SurveyNans(items) ==
    Cardinality({i \in 1..Len(items) :
                    items[i].v.t = "str" /\ float_is_nan(items[i].v.s)})

\* The float that is not a number; every comparison with it is false.
NaN == "nan"

\* sum(1 for s in scores if s >= lo)
CountAtLeast(scores, lo) == Cardinality({i \in 1..Len(scores) : scores[i] >= lo})

analyze_patient_satisfaction(self, satisfaction_data) ==
    LET scores == SurveyScores(satisfaction_data.items, 1)
        nans == SurveyNans(satisfaction_data.items)
        total == SeqSum(scores)
        n == Len(scores) + nans
        \* avg_score < 3.0 and avg_score >= 4.0, with avg_score = total / n or 0;
        \* a sum with a NaN in it is the NaN.
        below == IF nans > 0 THEN FALSE
                 ELSE IF n > 0 THEN total < 3 * Scale * n ELSE TRUE
        above == IF nans > 0 THEN FALSE
                 ELSE IF n > 0 THEN total >= 4 * Scale * n ELSE FALSE
        excellent == CountAtLeast(scores, (9 * Scale) \div 2)
        good_up == CountAtLeast(scores, (7 * Scale) \div 2)
        fair_up == CountAtLeast(scores, (5 * Scale) \div 2)
    IN  IF ~BlockTruthy(satisfaction_data)
        THEN [average_score |-> 0, insights |-> <<>>, recommendations |-> <<>>]
        ELSE [average_score |-> IF nans > 0 THEN NaN ELSE Average(total, n),
              total_responses |-> n,
              insights |-> IF below THEN <<"Patient satisfaction is below average">>
                           ELSE IF above THEN <<"Patient satisfaction is above average">>
                           ELSE <<>>,
              recommendations |->
                  IF below THEN <<"Investigate service quality and patient experience">>
                  ELSE IF above THEN <<"Maintain current service standards">>
                  ELSE <<>>,
              score_distribution |->
                  [excellent |-> excellent, good |-> good_up - excellent,
                   fair |-> fair_up - good_up,
                   \* a NaN is in no bucket: it is not below 2.5 either
                   poor |-> Len(scores) - fair_up]]

\* A direct call of ai_service.analyze_patient_satisfaction.
call_analyze_patient_satisfaction(block) ==
    /\ response' = [op |-> "analyze_patient_satisfaction", status |-> 0,
                    body |-> [block |-> block,
                              result |-> analyze_patient_satisfaction(ai_service, block)]]
    /\ UNCHANGED <<store, nextId, ai_service, predict_calls, requests, forms>>

(***************************************************************************)
(* The risk views of routers/ai_insights.py.                               *)
(***************************************************************************)
\* One turn of the loop of get_at_risk_facilities: acc is [raised, list].
AtRiskStep(acc, self, sub) ==
    LET submission_dict == to_dict(sub)
        predictions == predict_facility_needs(self, submission_dict)
        anomalies == detect_data_anomalies(self, submission_dict)
    IN  IF acc.raised \/ predictions.raised THEN [acc EXCEPT !.raised = TRUE]
        ELSE IF predictions.priority_level = "high" \/ Len(anomalies) > 0
        THEN [acc EXCEPT !.list = Append(@,
                [id |-> sub.id, facility_name |-> sub.facility_name,
                 state |-> sub.state, lga |-> sub.lga,
                 condition |-> sub.facility_condition,
                 priority |-> predictions.priority_level,
                 risk_factors |-> predictions.risk_factors,
                 predicted_needs |-> predictions.predicted_needs,
                 anomalies_count |-> Len(anomalies)])]
        ELSE acc

RECURSIVE AtRiskLoop(_, _, _, _)
AtRiskLoop(acc, self, submissions, i) ==
    IF i > Len(submissions) THEN acc
    ELSE AtRiskLoop(AtRiskStep(acc, self, submissions[i]), self, submissions, i + 1)

IsHigh(entry) == entry.priority = "high"
IsNotHigh(entry) == entry.priority # "high"

\* The list left in the order the records were read.
KeepReadOrder(list) == list

\* at_risk_facilities.sort(key=lambda x: 0 if x["priority"] == "high" else 1):
\* the sort is stable.
SortByPriority(list) == SelectSeq(list, IsHigh) \o SelectSeq(list, IsNotHigh)

\* A view that writes a flag into every record it reads.
get_at_risk_facilities_flagging(user) ==
    /\ response' = IF ~IsAdmin(user) THEN Forbidden("at_risk_facilities")
                   ELSE Ok("at_risk_facilities",
                           [total_at_risk |-> 0, facilities |-> <<>>,
                            submissions |-> store])
    /\ store' = [i \in 1..Len(store) |->
                    [store[i] EXCEPT !.submission_status = VStr("flagged")]]
    /\ UNCHANGED <<nextId, ai_service, predict_calls, requests, forms>>

\* GET /facilities/at-risk
get_at_risk_facilities(user) ==
    /\ response' =
          IF ~IsAdmin(user) THEN Forbidden("at_risk_facilities")
          ELSE LET scanned == AtRiskLoop([raised |-> FALSE, list |-> <<>>],
                                         ai_service, store, 1)
                   at_risk_facilities == SortByPriority(scanned.list)
               IN  IF scanned.raised THEN ServerError("at_risk_facilities")
                   ELSE Ok("at_risk_facilities",
                           [total_at_risk |-> Len(at_risk_facilities),
                            facilities |-> at_risk_facilities,
                            submissions |-> store])
    /\ UNCHANGED <<store, nextId, ai_service, predict_calls, requests, forms>>

\* A routing that does not know the word "water".
BucketWithoutWater(rec) ==
    LET low == str_lower(rec)
    IN  IF str_contains("infrastructure", low) \/ str_contains("power", low)
        THEN "infrastructure"
        ELSE IF str_contains("staff", low) \/ str_contains("worker", low) THEN "staffing"
        ELSE IF str_contains("funding", low) \/ str_contains("financial", low)
        THEN "funding"
        ELSE "general"

\* The bucket a recommendation string goes to.
Bucket(rec) ==
    LET low == str_lower(rec)
    IN  IF str_contains("infrastructure", low) \/ str_contains("power", low)
           \/ str_contains("water", low) THEN "infrastructure"
        ELSE IF str_contains("staff", low) \/ str_contains("worker", low) THEN "staffing"
        ELSE IF str_contains("funding", low) \/ str_contains("financial", low)
        THEN "funding"
        ELSE "general"

EmptyBuckets ==
    [raised |-> FALSE, infrastructure |-> <<>>, staffing |-> <<>>,
     funding |-> <<>>, general |-> <<>>]

RECURSIVE RouteAll(_, _, _, _)
RouteAll(buckets, sub, recs, j) ==
    IF j > Len(recs) THEN buckets
    ELSE RouteAll([buckets EXCEPT ![Bucket(recs[j])] = Append(@,
                      [facility |-> sub.facility_name, state |-> sub.state,
                       recommendation |-> recs[j]])],
                  sub, recs, j + 1)

RECURSIVE RecommendLoop(_, _, _, _)
RecommendLoop(buckets, self, submissions, i) ==
    IF i > Len(submissions) \/ buckets.raised THEN buckets
    ELSE LET predictions == predict_facility_needs(self, to_dict(submissions[i]))
         IN  IF predictions.raised THEN [buckets EXCEPT !.raised = TRUE]
             ELSE RecommendLoop(
                      RouteAll(buckets, submissions[i], predictions.recommendations, 1),
                      self, submissions, i + 1)

\* query.filter(FormSubmission.state == state) when a state is given.
FilterByState(submissions, state) ==
    LET StateIs(sub) == EqStr(sub.state, state.s)
    IN  IF Truthy(state) THEN SelectSeq(submissions, StateIs) ELSE submissions

\* GET /recommendations
get_ai_recommendations(user, state) ==
    /\ response' =
          IF ~IsAdmin(user) THEN Forbidden("ai_recommendations")
          ELSE LET submissions == FilterByState(store, state)
                   buckets == RecommendLoop(EmptyBuckets, ai_service, submissions, 1)
               IN  IF buckets.raised THEN ServerError("ai_recommendations")
                   ELSE Ok("ai_recommendations",
                           [recommendations |-> buckets, state |-> state,
                            submissions |-> store])
    /\ UNCHANGED <<store, nextId, ai_service, predict_calls, requests, forms>>

\* The position of the record with this primary key, 0 when there is none.
FindById(submissions, id) ==
    IF \E i \in 1..Len(submissions) : submissions[i].id.n = id
    THEN CHOOSE i \in 1..Len(submissions) : submissions[i].id.n = id
    ELSE 0

NotFound(op) == [op |-> op, status |-> 404, body |-> [detail |-> "Submission not found"]]

\* GET /submission/{submission_id}/insights: open to every signed-in user.
get_submission_insights(user, submission_id) ==
    /\ response' =
          LET i == FindById(store, submission_id)
              submission == store[i]
              submission_dict == to_dict(submission)
              predictions == predict_facility_needs(ai_service, submission_dict)
          IN  IF i = 0 THEN NotFound("submission_insights")
              ELSE IF predictions.raised THEN ServerError("submission_insights")
              ELSE Ok("submission_insights",
                      [submission_id |-> submission_id,
                       facility_name |-> submission.facility_name,
                       ai_analysis |->
                          [issues_analysis |->
                               analyze_issues_and_comments(ai_service,
                                   VStr(OrEmpty(submission.issues)),
                                   VStr(OrEmpty(submission.comments))),
                           satisfaction_analysis |->
                               analyze_patient_satisfaction(ai_service,
                                   IF BlockTruthy(submission.satisfaction_survey_data)
                                   THEN submission.satisfaction_survey_data
                                   ELSE Dict(<<>>)),
                           predictions |-> predictions,
                           anomalies |-> detect_data_anomalies(ai_service, submission_dict),
                           summary |->
                               generate_insights_summary(ai_service, submission_dict).text],
                       submissions |-> store])
    /\ UNCHANGED <<store, nextId, ai_service, predict_calls, requests, forms>>

(***************************************************************************)
(* get_dashboard_overview, update_submission and delete_submission.        *)
(***************************************************************************)
\* GROUP BY column: the rows [key, count], in no particular order.
GroupBy(submissions, column) ==
    {[key |-> k,
      count |-> Cardinality({i \in 1..Len(submissions) : submissions[i][column] = k})] :
        k \in {submissions[i][column] : i \in 1..Len(submissions)}}

\* ORDER BY count DESC LIMIT 10: the orders the database may return, rows of
\* equal count in either order.
TopOrders(groups) ==
    LET n == IF Cardinality(groups) < TopN THEN Cardinality(groups) ELSE TopN
    IN  {q \in [1..n -> groups] :
            /\ \A a, b \in 1..n : a < b => q[a] # q[b] /\ q[a].count >= q[b].count
            /\ \A g \in groups : (\A a \in 1..n : q[a] # g)
                                    => \A a \in 1..n : q[a].count >= g.count}

\* ORDER BY created_at DESC LIMIT 10: the latest record first.
RECURSIVE Recent(_, _)
Recent(submissions, k) ==
    IF submissions = <<>> \/ k = 0 THEN <<>>
    ELSE LET s == submissions[Len(submissions)]
         IN  <<[id |-> s.id, facility_name |-> s.facility_name, state |-> s.state,
                sync_status |-> s.sync_status]>>
                 \o Recent(SubSeq(submissions, 1, Len(submissions) - 1), k - 1)

\* GET /overview.  Every record is created within the last 30 days and on
\* one date, so submissions_over_time has one row when there is a record.
get_dashboard_overview(user) ==
    /\ \E top_lgas \in TopOrders(GroupBy(store, "lga")) :
          response' =
             IF ~IsAdmin(user) THEN Forbidden("dashboard_overview")
             ELSE LET total_submissions == Len(store)
                      synced == Cardinality({i \in 1..Len(store) :
                                                store[i].is_synced = VBool(TRUE)})
                      pending == Cardinality({i \in 1..Len(store) :
                                                 store[i].sync_status = VStr("pending")})
                  IN  Ok("dashboard_overview",
                         [total_submissions |-> total_submissions,
                          synced_submissions |-> synced,
                          pending_submissions |-> pending,
                          synced_percentage |-> Percentage(synced, total_submissions),
                          submissions_by_state |-> GroupBy(store, "state"),
                          top_lgas |-> top_lgas,
                          recent_submissions |-> Recent(store, TopN),
                          submissions_over_time |->
                              IF total_submissions > 0
                              THEN <<[date |-> "today", count |-> total_submissions]>>
                              ELSE <<>>])
    /\ UNCHANGED <<store, nextId, ai_service, predict_calls, requests, forms>>

\* for field, value in update_data.items(): setattr(submission, field, value)
ApplyUpdate(submission, update_data) ==
    [f \in DOMAIN submission |->
        IF f \in DOMAIN update_data THEN update_data[f] ELSE submission[f]]

\* A schema that lets every field of the request body through.
SubmissionUpdateAllowExtra(body) == body

\* SubmissionUpdate(**body).dict(exclude_unset=True): the schema has the three
\* status fields only, any other field of the body is dropped.
SubmissionUpdate(body) == [f \in DOMAIN body \cap StatusFields |-> body[f]]

\* PUT /submissions/{submission_id}
update_submission(user, submission_id, body) ==
    LET i == FindById(store, submission_id)
        update_data == SubmissionUpdate(body)
    IN  IF i = 0
        THEN /\ response' = NotFound("update_submission")
             /\ UNCHANGED <<store, nextId, ai_service, predict_calls, requests, forms>>
        ELSE IF user.role = "data_collector" /\ store[i].collector_id.n # user.id
        THEN /\ response' = Forbidden("update_submission")
             /\ UNCHANGED <<store, nextId, ai_service, predict_calls, requests, forms>>
        ELSE /\ store' = [store EXCEPT ![i] = ApplyUpdate(@, update_data)]
             /\ response' = Ok("update_submission", ApplyUpdate(store[i], update_data))
             /\ UNCHANGED <<nextId, ai_service, predict_calls, requests, forms>>

\* The table without its i-th row.
RemoveAt(submissions, i) ==
    SubSeq(submissions, 1, i - 1) \o SubSeq(submissions, i + 1, Len(submissions))

\* DELETE /submissions/{submission_id}: admins only.
delete_submission(user, submission_id) ==
    LET i == FindById(store, submission_id)
    IN  IF ~IsAdmin(user)
        THEN /\ response' = Forbidden("delete_submission")
             /\ UNCHANGED <<store, nextId, ai_service, predict_calls, requests, forms>>
        ELSE IF i = 0
        THEN /\ response' = NotFound("delete_submission")
             /\ UNCHANGED <<store, nextId, ai_service, predict_calls, requests, forms>>
        ELSE /\ store' = RemoveAt(store, i)
             /\ response' = Ok("delete_submission",
                               [message |-> "Submission deleted successfully"])
             /\ UNCHANGED <<nextId, ai_service, predict_calls, requests, forms>>

(***************************************************************************)
(* The reads of routers/submissions.py.                                    *)
(***************************************************************************)
\* query.filter(FormSubmission.collector_id == current_user.id) for a data
\* collector, the whole table for every other role.
OwnedBy(user, sub) == sub.collector_id.n = user.id

VisibleTo(user, submissions) ==
    LET Mine(sub) == OwnedBy(user, sub)
    IN  IF user.role = "data_collector" THEN SelectSeq(submissions, Mine)
        ELSE submissions

\* "if state: query = query.filter(FormSubmission.state == state)", and the
\* same for lga and sync_status: a filter that is None or "" is not applied.
FilterBy(submissions, column, value) ==
    LET Matches(sub) == EqStr(sub[column], value.s)
    IN  IF Truthy(value) THEN SelectSeq(submissions, Matches) ELSE submissions

\* order_by(desc(created_at)): the newest record first.
Newest(submissions) ==
    [i \in 1..Len(submissions) |-> submissions[Len(submissions) + 1 - i]]

\* GET /submissions, with skip and limit left at their defaults: the page is
\* the whole list.
get_submissions(user, state, lga, sync_status) ==
    /\ response' =
          Ok("get_submissions",
             [submissions |->
                 Newest(FilterBy(FilterBy(FilterBy(VisibleTo(user, store),
                                                   "state", state),
                                          "lga", lga),
                                 "sync_status", sync_status))])
    /\ UNCHANGED <<store, nextId, ai_service, predict_calls, requests, forms>>

\* GET /submissions/{submission_id}
get_submission(user, submission_id) ==
    /\ response' =
          LET i == FindById(store, submission_id)
          IN  IF i = 0 THEN NotFound("get_submission")
              ELSE IF user.role = "data_collector" /\ ~OwnedBy(user, store[i])
              THEN Forbidden("get_submission")
              ELSE Ok("get_submission", [submission |-> store[i]])
    /\ UNCHANGED <<store, nextId, ai_service, predict_calls, requests, forms>>

IsSynced(sub) == sub.is_synced = VBool(TRUE)
IsPending(sub) == EqStr(sub.sync_status, "pending")

\* The dict get_submission_stats returns for the three counts.
SubmissionStats(total, synced, pending) ==
    [total_submissions |-> total, synced_submissions |-> synced,
     pending_submissions |-> pending, sync_percentage |-> Percentage(synced, total)]

\* GET /stats, its three count queries answered from one state of the table.
get_submission_stats(user) ==
    /\ response' =
          LET query == VisibleTo(user, store)
          IN  Ok("submission_stats",
                 SubmissionStats(Len(query), Len(SelectSeq(query, IsSynced)),
                                 Len(SelectSeq(query, IsPending))))
    /\ UNCHANGED <<store, nextId, ai_service, predict_calls, requests, forms>>

\* A direct call of ai_service.predict_facility_needs on a stored record's
\* dict: the log keeps the argument, the result and the argument as the call
\* left it (the function assigns to no key of it).
call_predict_facility_needs(i) ==
    /\ Len(predict_calls) < MaxCalls
    /\ LET d == to_dict(store[i])
       IN  predict_calls' = Append(predict_calls,
               [arg |-> d, result |-> predict_facility_needs(ai_service, d), after |-> d])
    /\ UNCHANGED <<store, nextId, ai_service, response, requests, forms>>

\* A direct call of ai_service.detect_data_anomalies.
call_detect_data_anomalies(i) ==
    /\ LET d == to_dict(store[i])
       IN  response' = [op |-> "detect_data_anomalies", status |-> 0,
                        body |-> [arg |-> d,
                                  result |-> detect_data_anomalies(ai_service, d)]]
    /\ UNCHANGED <<store, nextId, ai_service, predict_calls, requests, forms>>

\* A direct call of ai_service.generate_insights_summary.
call_generate_insights_summary(i) ==
    /\ LET d == to_dict(store[i])
       IN  response' = [op |-> "generate_insights_summary", status |-> 0,
                        body |-> [arg |-> d,
                                  result |-> generate_insights_summary(ai_service, d)]]
    /\ UNCHANGED <<store, nextId, ai_service, predict_calls, requests, forms>>

(***************************************************************************)
(* Construction and the analytics specification.                           *)
(***************************************************************************)
\* AIService.__init__ with OPENAI_API_KEY unset: os.getenv gives "".
AIService(key) == [openai_api_key |-> key, enabled |-> key # ""]

Init ==
    /\ store = <<>>
    /\ nextId = 1
    /\ ai_service = AIService("")
    /\ response = NoResponse
    /\ predict_calls = <<>>
    /\ requests = NoRequests
    /\ forms = NoForms(FALSE)

\* Payloads the clients submit to the analytics scan.
WellFormedPayload ==
    [EmptyPayload EXCEPT
        !.facility_name = VStr("Kano PHC"), !.state = VStr("Kano"),
        !.lga = VStr("Dala"), !.geopolitical_zone = VStr("North West"),
        !.assessment_type = VStr("Baseline"), !.has_health_workers = VStr("Yes"),
        !.facility_condition = VStr("Good"), !.ownership_type = VStr("Public"),
        !.funding_data = Dict(<<KV("bhcpf_received", VStr("Yes")),
                                KV("amount", VStr("12,500"))>>),
        !.impact_funding_data = Dict(<<KV("received", VStr("Yes"))>>),
        !.infrastructure_data = Dict(<<KV("has_power", VStr("Yes")),
                                       KV("water_available", VBool(TRUE)),
                                       KV("has_internet", VStr("No"))>>),
        !.human_resources_data = Dict(<<KV("nurse_staff_count", VStr("12 nurses")),
                                        KV("health_workers", VInt(3))>>),
        !.services_data = Dict(<<KV("patients_seen", VStr("40 monthly")),
                                 KV("lab_test", VStr("Yes")),
                                 KV("anc_service", VStr("Available"))>>),
        !.satisfaction_survey_data = Dict(<<KV("overall_rating", VFloat(450)),
                                            KV("service_score", VStr("3 of 5"))>>)]

MalformedPayload ==
    [EmptyPayload EXCEPT
        !.facility_name = VStr("Dala Clinic"), !.state = VStr("Kano"),
        !.facility_condition = VStr("Poor"),
        !.funding_data = Dict(<<KV("has_bhcpf", VBool(TRUE)),
                                KV("amount", VStr("not-a-number"))>>),
        !.human_resources_data = Dict(<<KV("staff_count", VStr("abc")),
                                        KV("support_staff", VInt(2)),
                                        KV("security_personnel", VNone)>>),
        !.services_data = Dict(<<KV("patient_count", VNone),
                                 KV("monthly_attendance", VStr("  ")),
                                 KV("immunization", VStr("TRUE"))>>),
        !.satisfaction_survey_data = Dict(<<KV("staff_rating", VStr("n/a")),
                                            KV("care_score", VInt(3))>>)]

NegativePayload ==
    [EmptyPayload EXCEPT
        !.state = VStr("Lagos"), !.ownership_type = VStr("Private"),
        !.facility_condition = VStr("Good"),
        !.human_resources_data = Dict(<<KV("casual_staff", VInt(-3))>>),
        !.services_data = Dict(<<KV("patients_referred", VStr("-5"))>>)]

CollidingKeysPayload ==
    [EmptyPayload EXCEPT
        !.funding_data = Dict(<<KV("amount", VStr("99.5"))>>),
        !.infrastructure_data = Dict(<<>>),
        !.services_data = Dict(<<KV("lab_test", VStr("Yes")),
                                 KV("lab test", VStr("yes"))>>)]

LagosPayload ==
    [EmptyPayload EXCEPT
        !.state = VStr("Lagos"), !.facility_condition = VStr("Good"),
        !.ownership_type = VStr("Private"), !.has_health_workers = VStr("No"),
        !.funding_data = Dict(<<KV("amount", VInt(300))>>),
        !.impact_funding_data = Dict(<<KV("has_impact_funding", VStr("Yes"))>>),
        !.infrastructure_data = Dict(<<KV("pharmacy_available", VStr("Yes")),
                                       KV("revitalization", VStr("Yes"))>>),
        !.human_resources_data = Dict(<<KV("chw_workers", VStr("4"))>>),
        !.satisfaction_survey_data = Dict(<<KV("overall_rating", VStr("2.5"))>>)]

AnalyticsPayloads ==
    {EmptyPayload, WellFormedPayload, MalformedPayload, NegativePayload,
     CollidingKeysPayload, LagosPayload}

NextAnalytics ==
    \/ \E p \in AnalyticsPayloads : submit_form(Collector, p)
    \/ \E u \in Users : get_detailed_analytics(u)

SpecAnalytics == Init /\ [][NextAnalytics]_vars

\* Records with more keys than a top-10 list holds, and with equal values.
ManyStaffPayload ==
    [EmptyPayload EXCEPT
        !.state = VStr("Kano"),
        !.funding_data = Dict(<<KV("amount", VStr("300"))>>),
        !.human_resources_data =
            Dict(<<KV("nurse_staff", VInt(4)), KV("doctor_staff", VInt(9)),
                   KV("lab_staff", VInt(4)), KV("admin_staff", VInt(1)),
                   KV("clean_staff", VInt(9)), KV("guard_staff", VInt(2)),
                   KV("pharm_staff", VInt(4)), KV("ward_staff", VInt(6)),
                   KV("data_staff", VInt(1)), KV("cook_staff", VInt(5)),
                   KV("mid_staff", VInt(8)), KV("field_staff", VInt(1))>>)]

ManyServicesPayload ==
    [EmptyPayload EXCEPT
        !.state = VStr("Abia"),
        !.funding_data = Dict(<<KV("amount", VInt(300))>>),
        !.services_data =
            Dict(<<KV("anc", VStr("Yes")), KV("lab", VStr("yes")),
                   KV("hiv", VStr("Available")), KV("tb", VStr("TRUE")),
                   KV("epi", VStr("Yes")), KV("fp", VStr("Yes")),
                   KV("opd", VStr("Yes")), KV("ipd", VStr("Yes")),
                   KV("ncd", VStr("Yes")), KV("eye", VStr("Yes")),
                   KV("ent", VStr("Yes")), KV("xray", VStr("No"))>>)]

FewServicesPayload ==
    [EmptyPayload EXCEPT
        !.state = VStr("Lagos"),
        !.funding_data = Dict(<<KV("amount", VStr("12,500"))>>),
        !.human_resources_data = Dict(<<KV("field_staff", VStr("3 men")),
                                        KV("extra_personnel", VInt(2))>>),
        !.services_data = Dict(<<KV("ent", VStr("Yes")), KV("eye", VStr("Yes"))>>)]

TopNPayloads ==
    {EmptyPayload, ManyStaffPayload, ManyServicesPayload, FewServicesPayload,
     LagosPayload, NegativePayload}

\* The analytics scan over records with long lists.
NextTopN ==
    \/ \E p \in TopNPayloads : submit_form(Collector, p)
    \/ \E u \in Users : get_detailed_analytics(u)

SpecTopN == Init /\ [][NextTopN]_vars

(***************************************************************************)
(* Records for the AI service.  Coordinates are in hundredths of a degree. *)
(***************************************************************************)
HealthyPayload ==
    [EmptyPayload EXCEPT
        !.facility_name = VStr("Kano PHC"), !.state = VStr("Kano"),
        !.lga = VStr("Dala"), !.facility_condition = VStr("Good"),
        !.has_health_workers = VStr("Yes"),
        !.latitude = VFloat(900), !.longitude = VFloat(750),
        !.funding_data = Dict(<<KV("bhcpf_status", VStr("Received"))>>),
        !.infrastructure_data = Dict(<<KV("has_power", VStr("Yes")),
                                       KV("has_water", VStr("Yes"))>>),
        !.human_resources_data = Dict(<<KV("nurse_staff_count", VStr("12 nurses"))>>)]

PoorPayload ==
    [EmptyPayload EXCEPT
        !.facility_name = VStr("Dala Clinic"), !.lga = VStr(""),
        !.facility_condition = VStr("Poor"),
        !.latitude = VFloat(4000), !.longitude = VFloat(750),
        !.funding_data = Dict(<<>>),
        !.infrastructure_data = Dict(<<>>),
        !.human_resources_data = Dict(<<KV("staff_count", VInt(2)),
                                        KV("x_personnel", VFloat(790)),
                                        KV("chw_workers", VInt(9))>>)]

CriticalPayload ==
    [EmptyPayload EXCEPT
        !.facility_name = VStr("Ikeja Post"), !.state = VStr("Lagos"),
        !.lga = VStr("Ikeja"), !.facility_condition = VStr("CRITICAL"),
        !.has_health_workers = VStr("No"),
        !.latitude = VFloat(1400), !.longitude = VFloat(1550),
        !.funding_data = Dict(<<KV("has_bhcpf", VStr("No"))>>),
        !.infrastructure_data = Dict(<<KV("power_available", VBool(TRUE)),
                                       KV("has_water", VStr("Yes"))>>)]

NoConditionPayload == [HealthyPayload EXCEPT !.facility_condition = VNone]

BadStaffPayload ==
    [HealthyPayload EXCEPT
        !.human_resources_data = Dict(<<KV("staff_count", VStr("abc"))>>)]

NullIslandPayload ==
    [HealthyPayload EXCEPT
        !.facility_condition = VStr(""), !.has_health_workers = VStr("No"),
        !.latitude = VFloat(0)]

EdgePayload ==
    [HealthyPayload EXCEPT
        !.facility_name = VStr(""),
        !.latitude = VFloat(1400), !.longitude = VFloat(200)]

HalfLocatedPayload ==
    [HealthyPayload EXCEPT !.latitude = VFloat(4000), !.longitude = VNone]

\* A record submitted without a funding block and without an infrastructure
\* block: both columns are NULL.
BareBlocksPayload ==
    [HealthyPayload EXCEPT
        !.facility_name = VStr("Bare PHC"),
        !.funding_data = NoBlock, !.infrastructure_data = NoBlock]

PredictPayloads ==
    {HealthyPayload, PoorPayload, CriticalPayload, NoConditionPayload,
     BadStaffPayload, NullIslandPayload, BareBlocksPayload}

AnomalyPayloads ==
    {EmptyPayload, HealthyPayload, PoorPayload, CriticalPayload,
     NullIslandPayload, EdgePayload, HalfLocatedPayload}

RiskViewPayloads ==
    {HealthyPayload, PoorPayload, CriticalPayload, NoConditionPayload,
     BadStaffPayload, NullIslandPayload}

StateFilters == {VNone, VStr("Lagos")}

\* Direct calls of predict_facility_needs on stored records.
NextPredict ==
    \/ \E p \in PredictPayloads : submit_form(Collector, p)
    \/ \E i \in 1..Len(store) : call_predict_facility_needs(i)

SpecPredict == Init /\ [][NextPredict]_vars

\* Direct calls of detect_data_anomalies on stored records.
NextAnomalies ==
    \/ \E p \in AnomalyPayloads : submit_form(Collector, p)
    \/ \E i \in 1..Len(store) : call_detect_data_anomalies(i)

SpecAnomalies == Init /\ [][NextAnomalies]_vars

\* The risk views and the summary.
NextRisk ==
    \/ \E p \in RiskViewPayloads : submit_form(Collector, p)
    \/ \E u \in Users : get_at_risk_facilities(u)
    \/ \E u \in Users, state \in StateFilters : get_ai_recommendations(u, state)
    \/ \E i \in 1..Len(store) : call_generate_insights_summary(i)

SpecRisk == Init /\ [][NextRisk]_vars

InsightPayload ==
    [PoorPayload EXCEPT
        !.issues = VStr("broken urgent critical poor"),
        !.comments = VStr("no staff"),
        !.satisfaction_survey_data = Dict(<<KV("overall", VFloat(450)),
                                            KV("waiting", VStr("2")),
                                            KV("note", VStr("n/a"))>>)]

ReportPayloads == {HealthyPayload, InsightPayload, NoConditionPayload}

SubmissionIds == 1..MaxSubmits

\* Every report request, by every kind of user.
NextReports ==
    \/ \E p \in ReportPayloads : submit_form(Collector, p)
    \/ \E u \in Users : get_detailed_analytics(u)
    \/ \E u \in Users : get_dashboard_overview(u)
    \/ \E u \in Users : get_at_risk_facilities(u)
    \/ \E u \in Users, state \in StateFilters : get_ai_recommendations(u, state)
    \/ \E u \in Users, id \in SubmissionIds : get_submission_insights(u, id)

SpecReports == Init /\ [][NextReports]_vars

LifecyclePayloads == {HealthyPayload, PoorPayload}

\* Request bodies of PUT /submissions/{id}; the last one names a field the
\* schema does not have.
UpdateBodies ==
    {[submission_status |-> VStr("approved")],
     [sync_status |-> VStr("synced"), is_synced |-> VBool(TRUE)],
     [facility_name |-> VStr("Renamed"), state |-> VStr("Abia")]}

\* Intake, status updates and deletions.
NextLifecycle ==
    \/ \E p \in LifecyclePayloads : submit_form(Collector, p)
    \/ \E u \in AllUsers, id \in SubmissionIds, body \in UpdateBodies :
          update_submission(u, id, body)
    \/ \E u \in AllUsers, id \in SubmissionIds : delete_submission(u, id)

SpecLifecycle == Init /\ [][NextLifecycle]_vars

\* Two collectors file records; every signed-in user reads and updates.
AccessPayloads == {HealthyPayload, CriticalPayload}
Collectors == {Collector, OtherCollector}
LgaFilters == {VNone, VStr("Dala")}
SyncFilters == {VNone, VStr("pending")}
SyncedBody == [sync_status |-> VStr("synced"), is_synced |-> VBool(TRUE)]

NextAccess ==
    \/ \E u \in Collectors, p \in AccessPayloads : submit_form(u, p)
    \/ \E u \in AllUsers, state \in StateFilters, lga \in LgaFilters,
          sync_status \in SyncFilters : get_submissions(u, state, lga, sync_status)
    \/ \E u \in AllUsers, id \in SubmissionIds : get_submission(u, id)
    \/ \E u \in AllUsers : get_submission_stats(u)
    \/ \E u \in AllUsers, id \in SubmissionIds : update_submission(u, id, SyncedBody)
    \/ \E u \in AllUsers, id \in SubmissionIds : get_submission_insights(u, id)

SpecAccess == Init /\ [][NextAccess]_vars

\* The service as the process builds it: OPENAI_API_KEY set or not.
ApiKeys == {"", "sk-test"}

InitService ==
    /\ store = <<>>
    /\ nextId = 1
    /\ ai_service \in {AIService(key) : key \in ApiKeys}
    /\ response = NoResponse
    /\ predict_calls = <<>>
    /\ requests = NoRequests
    /\ forms = NoForms(FALSE)

Texts ==
    {VNone, VStr(""), VStr(" "), VStr("broken urgent critical poor"),
     VStr("Problem: ISSUE with lack of drugs"), VStr("good excellent working"),
     VStr("good but broken"), VStr("I know the staff"),
     VStr("nurse available, water working, no problem")}

\* Direct calls of analyze_issues_and_comments on free text.
NextText ==
    \E issues \in Texts, comments \in Texts :
        call_analyze_issues_and_comments(issues, comments)

SpecText == InitService /\ [][NextText]_vars

\* Direct calls of analyze_patient_satisfaction on survey blocks of up to two
\* answers.
SurveyValues ==
    {VNone, VStr("n/a"), VStr("nan"), VStr("4"), VStr(" 3.0 "), VBool(TRUE),
     VInt(2), VInt(5), VFloat(249), VFloat(250), VFloat(349), VFloat(350),
     VFloat(449), VFloat(450)}

SurveyBlocks ==
    {NoBlock, Dict(<<>>)}
    \cup {Dict(<<KV("overall", a)>>) : a \in SurveyValues}
    \cup {Dict(<<KV("overall", a), KV("waiting_time", b)>>) :
             a \in SurveyValues, b \in SurveyValues}

NextSatisfaction ==
    \E block \in SurveyBlocks : call_analyze_patient_satisfaction(block)

SpecSatisfaction == Init /\ [][NextSatisfaction]_vars


(***************************************************************************)
(* Report requests served side by side.  A handler declared with "def" is  *)
(* run in a worker thread, so the steps of two requests interleave: the    *)
(* query, one turn of the loop per record, the return, and the sending of  *)
(* the response.  The locals of the call worker r runs are requests[r].    *)
(***************************************************************************)
ReportOps == {"at_risk_facilities", "detailed_analytics"}

\* An accumulator kept on the module: the calls of one operation that are in
\* their loop all append to the accumulator of the first of them.
AccumulatorShared(reqs, r) ==
    LET same == {q \in RequestIds : reqs[q].op = reqs[r].op /\ reqs[q].pc = "loop"}
        first == CHOOSE q \in same : \A o \in same : q <= o
    IN  reqs[first].acc

\* The counters, dicts and lists a handler fills are locals of its own call.
Accumulator(reqs, r) == reqs[r].acc

\* The admin's request reaches the handler.
begin_request(r, op) ==
    /\ requests[r].pc = "idle"
    /\ requests' = [requests EXCEPT ![r] = [Idle EXCEPT !.op = op, !.pc = "query"]]
    /\ UNCHANGED <<store, nextId, ai_service, response, predict_calls, forms>>

\* submissions = db.query(FormSubmission).all(), and the empty accumulators.
query_submissions(r) ==
    /\ requests[r].pc = "query"
    /\ requests' = [requests EXCEPT ![r] =
          [@ EXCEPT !.pc = "loop", !.submissions = store, !.i = 1,
                    !.acc = IF requests[r].op = "at_risk_facilities"
                            THEN [raised |-> FALSE, list |-> <<>>]
                            ELSE EmptyAcc]]
    /\ UNCHANGED <<store, nextId, ai_service, response, predict_calls, forms>>

\* One turn of "for submission in submissions".  An exception of the AI
\* service ends the request with a 500.
loop_turn(r) ==
    /\ requests[r].pc = "loop"
    /\ requests[r].i <= Len(requests[r].submissions)
    /\ LET req == requests[r]
           sub == req.submissions[req.i]
           acc == IF req.op = "at_risk_facilities"
                  THEN AtRiskStep(Accumulator(requests, r), ai_service, sub)
                  ELSE ProcessSubmission(Accumulator(requests, r), sub)
       IN  requests' = [requests EXCEPT ![r] =
              IF req.op = "at_risk_facilities" /\ acc.raised
              THEN [req EXCEPT !.pc = "done", !.result = ServerError(req.op)]
              ELSE [req EXCEPT !.acc = acc, !.i = req.i + 1]]
    /\ UNCHANGED <<store, nextId, ai_service, response, predict_calls, forms>>

\* The statements after the loop, up to "return".
return_report(r) ==
    /\ requests[r].pc = "loop"
    /\ requests[r].i > Len(requests[r].submissions)
    /\ LET req == requests[r]
           at_risk_facilities == SortByPriority(req.acc.list)
           body == IF req.op = "at_risk_facilities"
                   THEN [total_at_risk |-> Len(at_risk_facilities),
                         facilities |-> at_risk_facilities,
                         submissions |-> req.submissions]
                   ELSE [report |-> Report(req.acc, req.submissions),
                         submissions |-> req.submissions]
       IN  requests' = [requests EXCEPT ![r] =
              [req EXCEPT !.pc = "done", !.result = Ok(req.op, body)]]
    /\ UNCHANGED <<store, nextId, ai_service, response, predict_calls, forms>>

\* The returned value, requests[r].result, has gone to the client and the
\* worker is free again.
send_response(r) ==
    /\ requests[r].pc = "done"
    /\ requests' = [requests EXCEPT ![r] = Idle]
    /\ UNCHANGED <<store, nextId, ai_service, response, predict_calls, forms>>

(***************************************************************************)
(* The count requests, get_dashboard_overview and get_submission_stats,    *)
(* served beside the writers.  Each db.query(...) is a statement of its    *)
(* own and reads the table as the last commit left it: the session opens   *)
(* no snapshot that spans the statements (READ COMMITTED on PostgreSQL; on *)
(* SQLite the driver runs a SELECT outside a transaction).  The writers    *)
(* submit_form, update_submission and delete_submission commit once.       *)
(***************************************************************************)
CountOps == {"dashboard_overview", "submission_stats"}

\* The request reaches the handler; get_current_active_admin has let the
\* caller of the overview through.
begin_counts(r, op, user) ==
    /\ requests[r].pc = "idle"
    /\ op = "dashboard_overview" => IsAdmin(user)
    /\ requests' = [requests EXCEPT ![r] =
          [Idle EXCEPT !.op = op, !.pc = "count_total",
                       !.acc = [user |-> user, total |-> 0, synced |-> 0,
                                pending |-> 0]]]
    /\ UNCHANGED <<store, nextId, ai_service, response, predict_calls, forms>>

\* The rows a count statement of the request ranges over.
CountScope(req) ==
    IF req.op = "submission_stats" THEN VisibleTo(req.acc.user, store) ELSE store

\* total_submissions = db.query(func.count(FormSubmission.id)).scalar() or 0,
\* total = query.count()
count_total(r) ==
    /\ requests[r].pc = "count_total"
    /\ requests' = [requests EXCEPT ![r] =
          [@ EXCEPT !.pc = "count_synced",
                    !.acc.total = Len(CountScope(requests[r]))]]
    /\ UNCHANGED <<store, nextId, ai_service, response, predict_calls, forms>>

\* synced = ... .filter(FormSubmission.is_synced == True) ...
count_synced(r) ==
    /\ requests[r].pc = "count_synced"
    /\ requests' = [requests EXCEPT ![r] =
          [@ EXCEPT !.pc = "count_pending",
                    !.acc.synced = Len(SelectSeq(CountScope(requests[r]), IsSynced))]]
    /\ UNCHANGED <<store, nextId, ai_service, response, predict_calls, forms>>

\* pending = ... .filter(FormSubmission.sync_status == "pending") ...
count_pending(r) ==
    /\ requests[r].pc = "count_pending"
    /\ requests' = [requests EXCEPT ![r] =
          [@ EXCEPT !.pc = "return",
                    !.acc.pending = Len(SelectSeq(CountScope(requests[r]), IsPending))]]
    /\ UNCHANGED <<store, nextId, ai_service, response, predict_calls, forms>>

\* The rest of the handler up to "return".  The four list queries of the
\* overview are taken in one step.
return_counts(r) ==
    /\ requests[r].pc = "return"
    /\ LET req == requests[r]
           acc == req.acc
       IN  \E top_lgas \in TopOrders(GroupBy(store, "lga")) :
              requests' = [requests EXCEPT ![r] =
                 [req EXCEPT
                    !.pc = "done",
                    !.result =
                       IF req.op = "submission_stats"
                       THEN Ok(req.op, SubmissionStats(acc.total, acc.synced, acc.pending))
                       ELSE Ok(req.op,
                               [total_submissions |-> acc.total,
                                synced_submissions |-> acc.synced,
                                pending_submissions |-> acc.pending,
                                synced_percentage |-> Percentage(acc.synced, acc.total),
                                submissions_by_state |-> GroupBy(store, "state"),
                                top_lgas |-> top_lgas,
                                recent_submissions |-> Recent(store, TopN),
                                submissions_over_time |->
                                    IF store # <<>>
                                    THEN <<[date |-> "today", count |-> Len(store)]>>
                                    ELSE <<>>])]]
    /\ UNCHANGED <<store, nextId, ai_service, response, predict_calls, forms>>

\* One count request at a time beside intake, status updates and deletions:
\* the first worker serves it.
CountPayloads == {HealthyPayload}
CountWorker == CHOOSE r \in RequestIds : \A q \in RequestIds : r <= q

NextCounts ==
    \/ \E p \in CountPayloads : submit_form(Collector, p)
    \/ \E id \in SubmissionIds : update_submission(Collector, id, SyncedBody)
    \/ \E id \in SubmissionIds : delete_submission(Admin, id)
    \/ \E op \in CountOps : begin_counts(CountWorker, op, Admin)
    \/ count_total(CountWorker)
    \/ count_synced(CountWorker)
    \/ count_pending(CountWorker)
    \/ return_counts(CountWorker)
    \/ send_response(CountWorker)

SpecCounts == Init /\ [][NextCounts]_vars

(***************************************************************************)
(* routers/forms.py: create_form and delete_form, served beside            *)
(* submit_form.  delete_form is a "def" handler run in a worker thread:    *)
(* its statements, the lookup of the form, the count of its submissions    *)
(* and the commit, are steps that interleave with the commits of the other *)
(* requests.                                                               *)
(***************************************************************************)
FormNotFound(op) == [op |-> op, status |-> 404, body |-> [detail |-> "Form not found"]]
FormHasSubmissions(op, submission_count) ==
    [op |-> op, status |-> 400,
     body |-> [detail |-> "Cannot permanently delete form with submission(s)",
               submission_count |-> submission_count]]

\* Form(...): is_active defaults to True and is_deleted to False.
NewForm(id) == [id |-> id, is_active |-> TRUE, is_deleted |-> FALSE]

\* create_form (admin only): the form is stored under a fresh primary key.
create_form(user) ==
    /\ IsAdmin(user)
    /\ forms.next_id <= MaxForms
    /\ forms' = [forms EXCEPT !.rows = Append(@, NewForm(forms.next_id)),
                              !.next_id = @ + 1]
    /\ UNCHANGED <<store, nextId, ai_service, response, predict_calls, requests>>

\* The stored submissions of a form.
SubmissionsOf(submissions, form_id) ==
    LET Refers(sub) == sub.form_id = VInt(form_id)
    IN  SelectSeq(submissions, Refers)

\* The request reaches the handler; get_current_active_admin turns every
\* other caller away.
begin_delete_form(r, user, form_id, permanent) ==
    /\ requests[r].pc = "idle"
    /\ requests' = [requests EXCEPT ![r] =
          IF IsAdmin(user)
          THEN [Idle EXCEPT !.op = "delete_form", !.pc = "find_form",
                            !.acc = [form_id |-> form_id, permanent |-> permanent]]
          ELSE [Idle EXCEPT !.op = "delete_form", !.pc = "done",
                            !.acc = [form_id |-> form_id, permanent |-> permanent],
                            !.result = Forbidden("delete_form")]]
    /\ UNCHANGED <<store, nextId, ai_service, response, predict_calls, forms>>

\* form = db.query(Form).filter(Form.id == form_id).first(), the 404, and
\* the branch on "permanent".
find_form(r) ==
    /\ requests[r].pc = "find_form"
    /\ LET req == requests[r]
       IN  requests' = [requests EXCEPT ![r] =
              IF FormIndex(forms, req.acc.form_id) = 0
              THEN [req EXCEPT !.pc = "done", !.result = FormNotFound(req.op)]
              ELSE IF req.acc.permanent
              THEN [req EXCEPT !.pc = "count_submissions"]
              ELSE [req EXCEPT !.pc = "soft_delete"]]
    /\ UNCHANGED <<store, nextId, ai_service, response, predict_calls, forms>>

\* submission_count = db.query(FormSubmission).filter(form_id == ...).count()
\* and the 400 for a positive count.
count_submissions(r) ==
    /\ requests[r].pc = "count_submissions"
    /\ LET req == requests[r]
           submission_count == Len(SubmissionsOf(store, req.acc.form_id))
       IN  requests' = [requests EXCEPT ![r] =
              IF submission_count > 0
              THEN [req EXCEPT !.pc = "done",
                               !.result = FormHasSubmissions(req.op, submission_count)]
              ELSE [req EXCEPT !.pc = "delete_form"]]
    /\ UNCHANGED <<store, nextId, ai_service, response, predict_calls, forms>>

\* The rows of a table without the one at index i.
WithoutRow(rows, i) ==
    [k \in 1..(Len(rows) - 1) |-> IF k < i THEN rows[k] ELSE rows[k + 1]]

\* The flush of a deleted Form: relationship("FormSubmission") carries no
\* cascade, so the submissions that refer to the form have their form_id
\* set to null.
Nullify(submissions, form_id) ==
    [k \in 1..Len(submissions) |->
        IF submissions[k].form_id = VInt(form_id)
        THEN [submissions[k] EXCEPT !.form_id = VNone]
        ELSE submissions[k]]

\* db.delete(form); db.commit().  The form another request has removed in
\* the meantime makes the commit fail.
delete_form_row(r) ==
    /\ requests[r].pc = "delete_form"
    /\ LET req == requests[r]
           i == FormIndex(forms, req.acc.form_id)
       IN  IF i = 0
           THEN /\ requests' = [requests EXCEPT ![r] =
                      [req EXCEPT !.pc = "done", !.result = ServerError(req.op)]]
                /\ UNCHANGED <<store, forms>>
           ELSE /\ store' = Nullify(store, req.acc.form_id)
                /\ forms' = [forms EXCEPT !.rows = WithoutRow(@, i)]
                /\ requests' = [requests EXCEPT ![r] =
                      [req EXCEPT !.pc = "done",
                          !.result = Ok(req.op, [message |-> "Form permanently deleted"])]]
    /\ UNCHANGED <<nextId, ai_service, response, predict_calls>>

\* form.is_deleted = True; form.is_active = False; db.commit()
soft_delete(r) ==
    /\ requests[r].pc = "soft_delete"
    /\ LET req == requests[r]
           i == FormIndex(forms, req.acc.form_id)
       IN  IF i = 0
           THEN /\ requests' = [requests EXCEPT ![r] =
                      [req EXCEPT !.pc = "done", !.result = ServerError(req.op)]]
                /\ UNCHANGED forms
           ELSE /\ forms' = [forms EXCEPT !.rows[i].is_deleted = TRUE,
                                          !.rows[i].is_active = FALSE]
                /\ requests' = [requests EXCEPT ![r] =
                      [req EXCEPT !.pc = "done",
                          !.result = Ok(req.op, [message |-> "Form deactivated (soft delete)"])]]
    /\ UNCHANGED <<store, nextId, ai_service, response, predict_calls>>

\* A submission names the form it was filled in for.
FormPayload(form_id) == [HealthyPayload EXCEPT !.form_id = VInt(form_id)]
FormPayloads == {FormPayload(f) : f \in FormIds}

\* The engine is the default SQLite file or one that enforces foreign keys.
InitForms ==
    /\ store = <<>>
    /\ nextId = 1
    /\ ai_service = AIService("")
    /\ response = NoResponse
    /\ predict_calls = <<>>
    /\ requests = NoRequests
    /\ \E foreign_keys \in BOOLEAN : forms = NoForms(foreign_keys)

NextForms ==
    \/ create_form(Admin)
    \/ \E payload \in FormPayloads : submit_form(Collector, payload)
    \/ \E r \in RequestIds, user \in Users, f \in FormIds, permanent \in BOOLEAN :
          begin_delete_form(r, user, f, permanent)
    \/ \E r \in RequestIds : find_form(r)
    \/ \E r \in RequestIds : count_submissions(r)
    \/ \E r \in RequestIds : delete_form_row(r)
    \/ \E r \in RequestIds : soft_delete(r)
    \/ \E r \in RequestIds : send_response(r)

SpecForms == InitForms /\ [][NextForms]_vars


\* The record set changes only while no report request is in flight.
ConcurrentPayloads == {HealthyPayload, PoorPayload, BadStaffPayload}

NextConcurrent ==
    \/ /\ \A r \in RequestIds : requests[r].pc = "idle"
       /\ \E payload \in ConcurrentPayloads : submit_form(Collector, payload)
    \/ \E r \in RequestIds, op \in ReportOps : begin_request(r, op)
    \/ \E r \in RequestIds : query_submissions(r)
    \/ \E r \in RequestIds : loop_turn(r)
    \/ \E r \in RequestIds : return_report(r)
    \/ \E r \in RequestIds : send_response(r)

SpecConcurrent == Init /\ [][NextConcurrent]_vars



(***************************************************************************)
(* Properties of the detailed-analytics report.                            *)
(***************************************************************************)
AnalyticsReturned == response.op = "detailed_analytics" /\ response.status = 200

SeqRange(q) == {q[i] : i \in 1..Len(q)}

\* Every percentage field of a report.
AllPercentages(r) ==
    {e.percentage : e \in SeqRange(r.facility_analysis.condition_distribution)}
    \cup {e.percentage : e \in SeqRange(r.facility_analysis.ownership_distribution)}
    \cup {e.percentage : e \in SeqRange(r.facility_analysis.health_workers_distribution)}
    \cup {e.percentage : e \in SeqRange(r.services_utilization.top_services_offered)}
    \cup {r.funding_analysis.bhcpf_percentage, r.funding_analysis.impact_percentage,
          r.infrastructure_analysis.power_percentage,
          r.infrastructure_analysis.water_percentage,
          r.infrastructure_analysis.internet_percentage,
          r.infrastructure_analysis.pharmacy_percentage,
          r.infrastructure_analysis.revitalization_percentage,
          r.summary.data_completeness_percentage}

\* Every count field of a report.
AllCounts(r) ==
    {e.count : e \in SeqRange(r.facility_analysis.condition_distribution)}
    \cup {e.count : e \in SeqRange(r.facility_analysis.ownership_distribution)}
    \cup {e.count : e \in SeqRange(r.facility_analysis.assessment_type_distribution)}
    \cup {e.count : e \in SeqRange(r.facility_analysis.health_workers_distribution)}
    \cup {e.count : e \in SeqRange(r.facility_analysis.geopolitical_zone_distribution)}
    \cup {e.count : e \in SeqRange(r.human_resources_analysis.staff_by_type)}
    \cup {e.count : e \in SeqRange(r.services_utilization.top_services_offered)}
    \cup {e.count : e \in SeqRange(r.patient_satisfaction.scores_by_category)}
    \cup {r.funding_analysis.bhcpf_facilities, r.funding_analysis.impact_facilities,
          r.infrastructure_analysis.facilities_with_power,
          r.infrastructure_analysis.facilities_with_water,
          r.infrastructure_analysis.facilities_with_internet,
          r.infrastructure_analysis.facilities_with_pharmacy,
          r.infrastructure_analysis.revitalized_facilities,
          r.human_resources_analysis.total_staff,
          r.human_resources_analysis.facilities_with_staff,
          r.services_utilization.total_patients,
          r.patient_satisfaction.total_responses,
          r.summary.total_facilities, r.summary.facilities_with_complete_data}

\* Every average of a report.
AllAverages(r) ==
    {e.average : e \in SeqRange(r.patient_satisfaction.scores_by_category)}
    \cup {r.funding_analysis.average_funding_per_facility,
          r.human_resources_analysis.average_staff_per_facility,
          r.services_utilization.average_patients_per_facility,
          r.patient_satisfaction.average_score}

\* Every distribution and top-10 list of a report.
AllLists(r) ==
    {r.facility_analysis.condition_distribution,
     r.facility_analysis.ownership_distribution,
     r.facility_analysis.assessment_type_distribution,
     r.facility_analysis.health_workers_distribution,
     r.facility_analysis.geopolitical_zone_distribution,
     r.funding_analysis.funding_by_state,
     r.human_resources_analysis.staff_by_type,
     r.services_utilization.top_services_offered,
     r.patient_satisfaction.scores_by_category}

\* C1: every percentage field of a returned detailed-analytics report lies
\* between 0 and 100 inclusive.  (Violated: two keys of one services block
\* that read as the same service name are both counted.)
C1_PercentagesInRange ==
    AnalyticsReturned =>
        \A pc \in AllPercentages(response.body.report) :
            0 <= pc /\ pc <= 100 * Scale

\* C2: every count field of a returned detailed-analytics report is greater
\* than or equal to 0, whatever the nested blocks hold.  (Violated: a negative
\* staff or patient value is added to staff_by_type and total_patients.)
C2_CountsNonNegative ==
    AnalyticsReturned => \A c \in AllCounts(response.body.report) : c >= 0

\* C3: on an empty record set get_detailed_analytics returns (no exception
\* for an admin caller), every average, percentage and count of the report is
\* 0 and every distribution and top-10 list is empty.
C3_EmptyRecordSetAllZero ==
    /\ response.op = "detailed_analytics" => response.status \in {200, 403}
    /\ (AnalyticsReturned /\ response.body.submissions = <<>>) =>
          LET r == response.body.report
          IN  /\ \A x \in AllPercentages(r) \cup AllAverages(r) \cup AllCounts(r) : x = 0
              /\ r.funding_analysis.total_funding_amount = 0
              /\ \A l \in AllLists(r) : l = <<>>

C3_Witness == AnalyticsReturned /\ response.body.submissions = <<>>

\* The nested blocks of a record and the report fields derived from each.
BlockNames ==
    {"funding_data", "impact_funding_data", "infrastructure_data",
     "human_resources_data", "services_data", "satisfaction_survey_data"}

StatsOf(block, r) ==
    CASE block = "funding_data" ->
            <<r.funding_analysis.bhcpf_facilities, r.funding_analysis.bhcpf_percentage,
              r.funding_analysis.total_funding_amount,
              r.funding_analysis.average_funding_per_facility,
              r.funding_analysis.funding_by_state>>
      [] block = "impact_funding_data" ->
            <<r.funding_analysis.impact_facilities, r.funding_analysis.impact_percentage>>
      [] block = "infrastructure_data" -> <<r.infrastructure_analysis>>
      [] block = "human_resources_data" -> <<r.human_resources_analysis>>
      [] block = "services_data" -> <<r.services_utilization>>
      [] OTHER -> <<r.patient_satisfaction>>

\* The accumulators fed by each block.
AccOf(block, acc) ==
    CASE block = "funding_data" ->
            <<acc.bhcpf_facilities, acc.total_funding_amount, acc.funding_by_state>>
      [] block = "impact_funding_data" -> <<acc.impact_facilities>>
      [] block = "infrastructure_data" ->
            <<acc.has_power, acc.has_water, acc.has_internet, acc.has_pharmacy,
              acc.revitalization_count>>
      [] block = "human_resources_data" ->
            <<acc.total_staff, acc.staff_by_type, acc.facilities_with_staff>>
      [] block = "services_data" -> <<acc.total_patients, acc.services_offered>>
      [] OTHER -> <<acc.satisfaction_scores, acc.satisfaction_by_category>>

\* Contents a block could have held instead.
BlockContents(b) == {p[b] : p \in AnalyticsPayloads}

ReportOf(submissions) == Report(Scan(submissions), submissions)

\* C4: a record whose nested block B is absent adds 0 to every accumulator
\* fed by B, and the statistics derived from every other block, the
\* distributions and the summary are what they would be had that record's
\* block B been present with any content.
C4_AbsentBlockContributesNothing ==
    AnalyticsReturned =>
        LET subs == response.body.submissions
            r == response.body.report
        IN  \A i \in 1..Len(subs) : \A b \in BlockNames :
                subs[i][b].kind = "none" =>
                    /\ LET before == Scan(SubSeq(subs, 1, i - 1))
                       IN  AccOf(b, ProcessSubmission(before, subs[i])) = AccOf(b, before)
                    /\ \A c \in BlockContents(b) :
                          LET alt == ReportOf([subs EXCEPT ![i][b] = c])
                          IN  /\ \A o \in BlockNames \ {b} : StatsOf(o, alt) = StatsOf(o, r)
                              /\ alt.facility_analysis = r.facility_analysis
                              /\ alt.summary = r.summary

C4_Witness ==
    /\ AnalyticsReturned
    /\ \E i \in 1..Len(response.body.submissions) :
          LET sub == response.body.submissions[i]
          IN  /\ sub.funding_data.kind = "none"
              /\ BlockTruthy(sub.human_resources_data)
              /\ BlockTruthy(sub.services_data)
    /\ response.body.report.human_resources_analysis.staff_by_type # <<>>

\* A value whose coercion raises, by block.
Uncoercible(block, key, value) ==
    CASE block = "funding_data" ->
            key = "amount" /\ Truthy(value) /\ ParseAmount(value).raised
      [] block = "human_resources_data" ->
            AnyMarker(StaffMarkers, key) /\ ParseCount(value).raised
      [] block = "services_data" ->
            AnyMarker(PatientMarkers, key) /\ ParseCount(value).raised
      [] block = "satisfaction_survey_data" ->
            AnyMarker(ScoreMarkers, key) /\ ParseScore(value).raised
      [] OTHER -> FALSE

\* The report fields fed by the coercion of each block.
CoercedStatsOf(block, r) ==
    CASE block = "funding_data" ->
            <<r.funding_analysis.total_funding_amount,
              r.funding_analysis.average_funding_per_facility,
              r.funding_analysis.funding_by_state>>
      [] block = "human_resources_data" -> <<r.human_resources_analysis>>
      [] block = "services_data" ->
            <<r.services_utilization.total_patients,
              r.services_utilization.average_patients_per_facility>>
      [] OTHER -> <<r.patient_satisfaction>>

\* The block without its j-th item.
WithoutItem(b, j) ==
    Dict(SubSeq(b.items, 1, j - 1) \o SubSeq(b.items, j + 1, Len(b.items)))

\* C5: a value that cannot be coerced drops only its own contribution: the
\* report is returned, and the statistics fed by that coercion are those of
\* the same record set with that one key left out.
C5_CoercionFailureDropsOneContribution ==
    /\ response.op = "detailed_analytics" => response.status \in {200, 403}
    /\ AnalyticsReturned =>
          LET subs == response.body.submissions
              r == response.body.report
          IN  \A i \in 1..Len(subs) : \A b \in BlockNames :
                  \A j \in 1..Len(subs[i][b].items) :
                      Uncoercible(b, subs[i][b].items[j].k, subs[i][b].items[j].v) =>
                          CoercedStatsOf(b, ReportOf([subs EXCEPT ![i][b] = WithoutItem(@, j)]))
                              = CoercedStatsOf(b, r)

C5_Witness ==
    /\ AnalyticsReturned
    /\ Len(response.body.submissions) = 2
    /\ LET hr == response.body.submissions[1].human_resources_data
       IN  \E j, k \in 1..Len(hr.items) :
              /\ Uncoercible("human_resources_data", hr.items[j].k, hr.items[j].v)
              /\ AnyMarker(StaffMarkers, hr.items[k].k)
              /\ ~ParseCount(hr.items[k].v).raised
    /\ response.body.report.human_resources_analysis.total_staff > 0


(***************************************************************************)
(* Properties of the AI service and the risk views.                        *)
(***************************************************************************)
\* C6: the at-risk view, the recommendations view, predict_facility_needs and
\* generate_insights_summary complete for every stored record: no request
\* ends in a server error and no call ends in an exception, whatever the
\* record's facility_condition or staff values are.
C6_RiskViewsCompleteForEveryRecord ==
    /\ response.op \in {"at_risk_facilities", "ai_recommendations"}
          => response.status # 500
    /\ response.op = "generate_insights_summary" => ~response.body.result.raised

IsBadCondition(v) == v.t = "str" /\ str_lower(v.s) \in {"poor", "critical"}

\* C7: every call of predict_facility_needs returns, with priority_level
\* "high" exactly when the lower-cased facility_condition is "poor" or
\* "critical" and "medium" for every other record, a record with no
\* condition included; "low" is never returned.
C7_PriorityFollowsCondition ==
    \A i \in 1..Len(predict_calls) :
        /\ ~predict_calls[i].result.raised
        /\ predict_calls[i].result.priority_level =
              (IF IsBadCondition(predict_calls[i].arg.facility_condition)
               THEN "high" ELSE "medium")

SameContent(d1, d2) == \A f \in PayloadFields : d1[f] = d2[f]

DetectReturned == response.op = "detect_data_anomalies"

FindingsOfType(findings, type) ==
    LET HasType(f) == f.type = type IN SelectSeq(findings, HasType)

\* Latitude outside [4.0, 14.0] or longitude outside [2.0, 15.0].
OutsideNigeria(lat, lon) == lat < 400 \/ lat > 1400 \/ lon < 200 \/ lon > 1500

\* C9: when latitude and longitude are both present, detect_data_anomalies
\* reports exactly one invalid_location finding of severity medium if the
\* point lies outside latitude [4.0, 14.0] x longitude [2.0, 15.0], and none
\* if it lies inside.
C9_InvalidLocationIffOutside ==
    DetectReturned =>
        LET lat == response.body.arg.latitude
            lon == response.body.arg.longitude
            found == FindingsOfType(response.body.result, "invalid_location")
        IN  (lat.t # "none" /\ lon.t # "none") =>
                IF OutsideNigeria(lat.n, lon.n)
                THEN Len(found) = 1 /\ found[1].severity = "medium"
                ELSE found = <<>>

\* The critical fields of a record that are null or empty, in the order
\* facility_name, state, lga, facility_condition.
MissingIn(d) ==
    LET Lacks(f) == d[f].t = "none" \/ d[f] = VStr("")
    IN  SelectSeq(<<"facility_name", "state", "lga", "facility_condition">>, Lacks)

\* C10: detect_data_anomalies reports one missing_data finding of severity
\* high for each of facility_name, state, lga, facility_condition that is
\* missing or empty; these findings come first in the list, in that order,
\* and no other finding is a missing_data one.
C10_MissingDataFindingsLeadInOrder ==
    DetectReturned =>
        LET missing == MissingIn(response.body.arg)
            result == response.body.result
        IN  /\ Len(result) >= Len(missing)
            /\ \A k \in 1..Len(missing) :
                  /\ result[k].type = "missing_data"
                  /\ result[k].field = missing[k]
                  /\ result[k].severity = "high"
            /\ \A k \in (Len(missing) + 1)..Len(result) :
                  result[k].type # "missing_data"

\* A record with a null state and an empty lga, whose findings go on after
\* the two missing_data ones.
C10_Witness ==
    /\ DetectReturned
    /\ response.body.arg.facility_name.t = "str"
    /\ response.body.arg.state = VNone
    /\ response.body.arg.lga = VStr("")
    /\ Len(response.body.result) > 2

(***************************************************************************)
(* Properties of the text analyser.                                        *)
(***************************************************************************)
TextReturned == response.op = "analyze_issues_and_comments"

IsEmptyText(v) == v = VNone \/ v = VStr("")

\* The lower-cased combined text of a call.
CombinedLower(issues, comments) ==
    str_lower(str_strip(OrEmpty(issues) \o " " \o OrEmpty(comments)))

\* How many of the given keywords occur in the text.
Occurring(keywords, text) ==
    Cardinality({w \in keywords :
        \E i \in 1..Len(text) : i + Len(w) - 1 <= Len(text)
                                   /\ SubSeq(text, i, i + Len(w) - 1) = w})

\* C11: analyze_issues_and_comments returns neutral/low with no topics when
\* both inputs are empty; otherwise, with n and p the numbers of negative and
\* positive keywords in the lower-cased combined text, n > p gives negative
\* with priority high if n > 3 and medium otherwise, p > n gives positive/low
\* and n = p gives neutral/medium.
C11_SentimentFollowsKeywordCounts ==
    TextReturned =>
        LET result == response.body.result
            text == CombinedLower(response.body.issues, response.body.comments)
            n == Occurring({"problem", "issue", "broken", "missing", "urgent",
                            "critical", "poor", "bad", "lack", "no"}, text)
            p == Occurring({"good", "excellent", "working", "available",
                            "complete", "satisfied"}, text)
        IN  IF IsEmptyText(response.body.issues) /\ IsEmptyText(response.body.comments)
            THEN result.sentiment = "neutral" /\ result.priority = "low"
                    /\ result.topics = <<>>
            ELSE /\ n > p => result.sentiment = "negative"
                                /\ result.priority = (IF n > 3 THEN "high" ELSE "medium")
                 /\ p > n => result.sentiment = "positive" /\ result.priority = "low"
                 /\ n = p => result.sentiment = "neutral" /\ result.priority = "medium"

\* The text with the four negative keywords broken, urgent, critical, poor and
\* no positive one came back negative/high.
C11_Witness ==
    /\ TextReturned
    /\ response.body.issues = VStr("broken urgent critical poor")
    /\ response.body.comments = VStr("")
    /\ response.body.result.sentiment = "negative"
    /\ response.body.result.priority = "high"

(***************************************************************************)
(* Properties of the risk views.                                           *)
(***************************************************************************)
AtRiskReturned == response.op = "at_risk_facilities" /\ response.status = 200

\* The record is at risk: predicted priority high, or at least one anomaly.
IsAtRisk(sub) ==
    \/ predict_facility_needs(ai_service, to_dict(sub)).priority_level = "high"
    \/ detect_data_anomalies(ai_service, to_dict(sub)) # <<>>

\* C12: the list of get_at_risk_facilities holds exactly the records whose
\* predicted priority is high or that have an anomaly, total_at_risk is its
\* length, every high entry precedes every other entry, and inside each of
\* the two groups the entries keep the order in which the records were read.
C12_AtRiskListExactAndStablySorted ==
    AtRiskReturned =>
        LET list == response.body.facilities
            subs == response.body.submissions
        IN  /\ response.body.total_at_risk = Len(list)
            /\ {list[a].id : a \in 1..Len(list)}
                  = {subs[i].id : i \in {j \in 1..Len(subs) : IsAtRisk(subs[j])}}
            /\ \A a, b \in 1..Len(list) :
                  a < b =>
                     /\ list[a].id # list[b].id
                     /\ ~(list[a].priority # "high" /\ list[b].priority = "high")
                     /\ (list[a].priority = "high") = (list[b].priority = "high")
                           => list[a].id.n < list[b].id.n
            /\ \A a \in 1..Len(list) : \E i \in 1..Len(subs) :
                  /\ subs[i].id = list[a].id
                  /\ list[a].priority =
                        predict_facility_needs(ai_service, to_dict(subs[i])).priority_level

\* A high-priority record read second is listed before a medium-priority
\* record with anomalies that was read first.
C12_Witness ==
    /\ AtRiskReturned
    /\ Len(response.body.facilities) = 2
    /\ response.body.facilities[1].priority = "high"
    /\ response.body.facilities[2].priority = "medium"
    /\ response.body.facilities[1].id.n > response.body.facilities[2].id.n

RecommendationsReturned == response.op = "ai_recommendations" /\ response.status = 200

BucketNames == {"infrastructure", "staffing", "funding", "general"}

\* The bucket the first matching rule gives a recommendation string.
FirstMatchingBucket(rec) ==
    LET low == str_lower(rec)
    IN  IF Occurring({"infrastructure", "power", "water"}, low) > 0 THEN "infrastructure"
        ELSE IF Occurring({"staff", "worker"}, low) > 0 THEN "staffing"
        ELSE IF Occurring({"funding", "financial"}, low) > 0 THEN "funding"
        ELSE "general"

\* The positions of the stored records a request with this state filter selects.
SelectedBy(subs, state) ==
    {i \in 1..Len(subs) : state = VNone \/ subs[i].state = state}

RecommendationsOf(sub) ==
    predict_facility_needs(ai_service, to_dict(sub)).recommendations

RECURSIVE SumOver(_, _)
SumOver(f, S) ==
    IF S = {} THEN 0 ELSE LET x == CHOOSE y \in S : TRUE IN f[x] + SumOver(f, S \ {x})

\* C13: get_ai_recommendations puts every recommendation of the selected
\* records in exactly one bucket, the one of the first matching rule
\* (infrastructure/power/water, then staff/worker, then funding/financial,
\* else general); the buckets together hold as many entries as the selected
\* records have recommendations, and with a state filter only records of that
\* state contribute.
C13_RecommendationsRoutedOnce ==
    RecommendationsReturned =>
        LET buckets == response.body.recommendations
            subs == response.body.submissions
            selected == SelectedBy(subs, response.body.state)
        IN  /\ \A b \in BucketNames : \A a \in 1..Len(buckets[b]) :
                  /\ FirstMatchingBucket(buckets[b][a].recommendation) = b
                  /\ \E i \in selected :
                        /\ buckets[b][a].facility = subs[i].facility_name
                        /\ buckets[b][a].state = subs[i].state
                        /\ buckets[b][a].recommendation
                              \in SeqRange(RecommendationsOf(subs[i]))
            /\ SumOver([b \in BucketNames |-> Len(buckets[b])], BucketNames)
                  = SumOver([i \in selected |-> Len(RecommendationsOf(subs[i]))], selected)
            /\ \A i \in selected : \A j \in 1..Len(RecommendationsOf(subs[i])) :
                  LET rec == RecommendationsOf(subs[i])[j]
                  IN  Cardinality({a \in 1..Len(buckets[FirstMatchingBucket(rec)]) :
                          /\ buckets[FirstMatchingBucket(rec)][a].recommendation = rec
                          /\ buckets[FirstMatchingBucket(rec)][a].facility
                                = subs[i].facility_name}) >= 1

\* A request filtered on Lagos over a Lagos record and a record of no state
\* that has recommendations of its own: only the Lagos record is routed.
C13_Witness ==
    /\ RecommendationsReturned
    /\ response.body.state = VStr("Lagos")
    /\ \E i, j \in 1..Len(response.body.submissions) :
          /\ response.body.submissions[i].state = VStr("Lagos")
          /\ response.body.submissions[j].state = VNone
          /\ RecommendationsOf(response.body.submissions[j]) # <<>>
    /\ response.body.recommendations.general # <<>>
    /\ response.body.recommendations.infrastructure = <<>>

\* An unfiltered request whose records fill all four buckets.
C13_AllBucketsFilled ==
    /\ RecommendationsReturned
    /\ response.body.state = VNone
    /\ \A b \in BucketNames : response.body.recommendations[b] # <<>>

(***************************************************************************)
(* Properties of the top-10 lists and of the funding totals.               *)
(***************************************************************************)
\* The three top-10 lists of a report as [list, metric of each entry, all the
\* accumulated keys and values].
TopLists(r, acc) ==
    {[keys |-> [a \in 1..Len(r.funding_analysis.funding_by_state) |->
                    r.funding_analysis.funding_by_state[a].k],
       metric |-> [a \in 1..Len(r.funding_analysis.funding_by_state) |->
                    r.funding_analysis.funding_by_state[a].v],
       all |-> acc.funding_by_state],
      [keys |-> [a \in 1..Len(r.human_resources_analysis.staff_by_type) |->
                    r.human_resources_analysis.staff_by_type[a].k],
       metric |-> [a \in 1..Len(r.human_resources_analysis.staff_by_type) |->
                    r.human_resources_analysis.staff_by_type[a].count],
       all |-> acc.staff_by_type],
      [keys |-> [a \in 1..Len(r.services_utilization.top_services_offered) |->
                    r.services_utilization.top_services_offered[a].k],
       metric |-> [a \in 1..Len(r.services_utilization.top_services_offered) |->
                    r.services_utilization.top_services_offered[a].count],
       all |-> acc.services_offered]}

\* The position at which a key was first encountered.
FirstSeen(all, key) == CHOOSE i \in 1..Len(all) : all[i].k = key

AmountOf(sub) ==
    LET parsed == ParseAmount(BlockGet(sub.funding_data, "amount"))
    IN  IF parsed.raised THEN 0 ELSE parsed.n

StatesOf(subs) == {subs[i].state.s : i \in {j \in 1..Len(subs) : subs[j].state.t = "str"}}

ReportStep ==
    \/ \E u \in Users : get_detailed_analytics(u)
    \/ \E u \in Users : get_at_risk_facilities(u)
    \/ \E u \in Users, state \in StateFilters : get_ai_recommendations(u, state)
    \/ \E u \in Users, id \in SubmissionIds : get_submission_insights(u, id)

\* C16: get_detailed_analytics, get_at_risk_facilities, get_ai_recommendations
\* and get_submission_insights leave the record store unchanged: the stored
\* records and every field of every record are the same after as before.
C16_ReportsLeaveStoreUnchanged == [][store' = store \/ ~ReportStep]_vars

\* A report has been answered over a non-empty store.
C16_Witness ==
    /\ response.op \in {"detailed_analytics", "at_risk_facilities",
                        "ai_recommendations", "submission_insights"}
    /\ response.status = 200
    /\ response.body.submissions = store
    /\ Len(store) = MaxRecords

\* A request for one of the administrative reports by this user.
AdminReportRequest(u) ==
    \/ get_detailed_analytics(u)
    \/ get_dashboard_overview(u)
    \/ get_at_risk_facilities(u)
    \/ \E state \in StateFilters : get_ai_recommendations(u, state)

\* C17: a caller whose role is not admin who requests detailed-analytics, the
\* dashboard overview, the at-risk facilities or the recommendations gets the
\* forbidden (403) answer with no report content; a request for the insights
\* of a submission id that does not exist gets the not-found (404) answer.
C17_ForbiddenAndNotFound ==
    [][/\ \A u \in Users :
             (u.role # "admin" /\ AdminReportRequest(u)) =>
                 /\ response'.status = 403
                 /\ response'.body = [detail |-> "Not enough permissions"]
       /\ \A u \in Users, id \in SubmissionIds :
             ((\A i \in 1..Len(store) : store[i].id.n # id)
                   /\ get_submission_insights(u, id)) =>
                 /\ response'.status = 404
                 /\ response'.body = [detail |-> "Submission not found"]]_vars

\* A report request was refused while records were stored.
C17_Witness ==
    /\ response.op \in {"detailed_analytics", "dashboard_overview",
                        "at_risk_facilities", "ai_recommendations"}
    /\ response.status = 403
    /\ store # <<>>

\* The insights of an unknown submission id were asked for.
C17_NotFoundReached ==
    /\ response.op = "submission_insights"
    /\ response.status = 404
    /\ store # <<>>

(* C18: over any sequence of submit, update and delete requests, a step    *)
(* that keeps a stored record changes at most its submission_status,       *)
(* sync_status and is_synced, every other field keeps its value, and a     *)
(* step after which a stored record is gone is a delete_submission issued  *)
(* by an admin.                                                            *)
AdminDeletes(id) ==
    \E u \in AllUsers : IsAdmin(u) /\ delete_submission(u, id)

C18_OnlyStatusChangesAndAdminDeletes ==
    [][\A i \in 1..Len(store) :
          LET id == store[i].id.n
              j  == FindById(store', id)
          IN  IF j = 0
              THEN AdminDeletes(id)
              ELSE \A f \in DOMAIN store[i] \ StatusFields :
                      store'[j][f] = store[i][f]]_vars

(* A record approved by an update is still stored after an earlier record  *)
(* was deleted, and the last request was an update that named other fields.*)
C18_Witness ==
    /\ response.op = "update_submission"
    /\ response.status = 200
    /\ nextId > Len(store) + 1
    /\ \E i \in 1..Len(store) :
          /\ store[i].submission_status = VStr("approved")
          /\ store[i].is_synced = VBool(TRUE)
          /\ store[i].facility_name # VStr("Renamed")


(* C19: report requests that run side by side against an unchanged record  *)
(* set, under every interleaving of their steps, each return the report a  *)
(* single request run alone returns; a step of one request changes neither *)
(* the record set, nor the ai_service instance, nor another request.       *)
RunAlone(op) ==
    IF op = "at_risk_facilities"
    THEN LET scanned == AtRiskLoop([raised |-> FALSE, list |-> <<>>],
                                   ai_service, store, 1)
         IN  IF scanned.raised THEN ServerError(op)
             ELSE Ok(op, [total_at_risk |-> Len(scanned.list),
                          facilities |-> SortByPriority(scanned.list),
                          submissions |-> store])
    ELSE Ok(op, [report |-> Report(Scan(store), store), submissions |-> store])

ReturnsWhatAloneReturns ==
    \A r \in RequestIds :
        requests[r].pc = "done" => requests[r].result = RunAlone(requests[r].op)

StepsOfOneRequestOnly ==
    \A r \in RequestIds :
        requests'[r] # requests[r] =>
            /\ store' = store
            /\ ai_service' = ai_service
            /\ \A q \in RequestIds \ {r} : requests'[q] = requests[q]

C19_ConcurrentReportsAreIsolated ==
    [] ReturnsWhatAloneReturns /\ [][StepsOfOneRequestOnly]_vars

(* Two requests of the same operation are in flight over two records: one  *)
(* has returned a non-empty at-risk list while the other is in mid-loop.   *)
C19_Witness ==
    /\ Len(store) = 2
    /\ \E r, q \in RequestIds :
          /\ r # q
          /\ requests[r].op = "at_risk_facilities"
          /\ requests[r].pc = "done"
          /\ requests[r].result.status = 200
          /\ requests[r].result.body.total_at_risk > 0
          /\ requests[q].op = "at_risk_facilities"
          /\ requests[q].pc = "loop"
          /\ requests[q].i = 2


(* C20: every call of predict_facility_needs that returns adds the risk    *)
(* factor "Insufficient staffing", the need "Additional healthcare         *)
(* workers" and the recommendation "Recruit and train more staff" exactly  *)
(* when the staff-marker values of the record's human-resources block sum  *)
(* to less than 5, a record with no staff-marker key or no block counting  *)
(* as 0, and the priority_level is the one the condition alone gives.      *)
MarkerSum(hr) ==
    IF IsDict(hr) THEN StaffSum(0, hr.items, 1).n ELSE 0

HasStaffingFindings(result) ==
    /\ "Insufficient staffing" \in SeqRange(result.risk_factors)
    /\ "Additional healthcare workers" \in SeqRange(result.predicted_needs)
    /\ "Recruit and train more staff" \in SeqRange(result.recommendations)

HasNoStaffingFinding(result) ==
    /\ "Insufficient staffing" \notin SeqRange(result.risk_factors)
    /\ "Additional healthcare workers" \notin SeqRange(result.predicted_needs)
    /\ "Recruit and train more staff" \notin SeqRange(result.recommendations)

C20_StaffingFindingsFollowMarkerSum ==
    \A i \in 1..Len(predict_calls) :
        LET call == predict_calls[i]
        IN  ~call.result.raised =>
               /\ IF MarkerSum(call.arg.human_resources_data) < MinStaff
                  THEN HasStaffingFindings(call.result)
                  ELSE HasNoStaffingFinding(call.result)
               /\ call.result.priority_level =
                     (IF IsBadCondition(call.arg.facility_condition)
                      THEN "high" ELSE "medium")

(* The part of C20 the code keeps: the findings follow the sum for every   *)
(* record that has a human-resources block.                                *)
C20_HoldsForRecordsWithBlock ==
    \A i \in 1..Len(predict_calls) :
        LET call == predict_calls[i]
        IN  (~call.result.raised /\ IsDict(call.arg.human_resources_data)) =>
               IF MarkerSum(call.arg.human_resources_data) < MinStaff
               THEN HasStaffingFindings(call.result)
               ELSE HasNoStaffingFinding(call.result)


(* C21: every call of predict_facility_needs that returns adds the risk    *)
(* factor "Lack of funding", the need "Financial support" and the          *)
(* recommendation "Apply for BHCPF or IMPACT funding" exactly when the     *)
(* record's funding block carries no received-funding signal, a record     *)
(* with no funding block included.                                         *)
ReceivedFunding(fd) ==
    /\ IsDict(fd)
    /\ \/ EqStr(BlockGet(fd, "bhcpf_status"), "Received")
       \/ Truthy(BlockGet(fd, "has_bhcpf"))

HasFundingFindings(result) ==
    /\ "Lack of funding" \in SeqRange(result.risk_factors)
    /\ "Financial support" \in SeqRange(result.predicted_needs)
    /\ "Apply for BHCPF or IMPACT funding" \in SeqRange(result.recommendations)

HasNoFundingFinding(result) ==
    /\ "Lack of funding" \notin SeqRange(result.risk_factors)
    /\ "Financial support" \notin SeqRange(result.predicted_needs)
    /\ "Apply for BHCPF or IMPACT funding" \notin SeqRange(result.recommendations)

C21_FundingFindingsFollowSignal ==
    \A i \in 1..Len(predict_calls) :
        LET call == predict_calls[i]
        IN  ~call.result.raised =>
               IF ReceivedFunding(call.arg.funding_data)
               THEN HasNoFundingFinding(call.result)
               ELSE HasFundingFindings(call.result)

(* The part of C21 the code keeps: the findings follow the signal for      *)
(* every record whose funding block is a mapping.                          *)
C21_HoldsForRecordsWithBlock ==
    \A i \in 1..Len(predict_calls) :
        LET call == predict_calls[i]
        IN  (~call.result.raised /\ IsDict(call.arg.funding_data)) =>
               IF ReceivedFunding(call.arg.funding_data)
               THEN HasNoFundingFinding(call.result)
               ELSE HasFundingFindings(call.result)

(* C22: for each of power and water, every call of predict_facility_needs  *)
(* that returns adds the need and the recommendation of the capability     *)
(* exactly when the infrastructure block has its signal under neither      *)
(* alias key, a record with no infrastructure block included; no risk      *)
(* factor comes from it, so risk_factors holds entries of the condition,   *)
(* staffing and funding rules only, and predicted_needs and                *)
(* recommendations have equal length.                                      *)
HasCapability(infra, flagKey, aliasKey) ==
    IsDict(infra) /\ Signal(infra, flagKey, aliasKey)

CapabilityFollowsSignal(call, flagKey, aliasKey, need, recommendation) ==
    LET present == HasCapability(call.arg.infrastructure_data, flagKey, aliasKey)
    IN  /\ (need \in SeqRange(call.result.predicted_needs)) <=> ~present
        /\ (recommendation \in SeqRange(call.result.recommendations)) <=> ~present

RuleRiskFactors ==
    {"Poor facility condition", "Insufficient staffing", "Lack of funding"}

C22_InfrastructureNeedsFollowSignals ==
    \A i \in 1..Len(predict_calls) :
        LET call == predict_calls[i]
        IN  ~call.result.raised =>
               /\ CapabilityFollowsSignal(call, "has_power", "power_available",
                      "Power supply", "Install or repair power infrastructure")
               /\ CapabilityFollowsSignal(call, "has_water", "water_available",
                      "Water supply", "Ensure reliable water access")
               /\ SeqRange(call.result.risk_factors) \subseteq RuleRiskFactors
               /\ Len(call.result.predicted_needs) = Len(call.result.recommendations)

(* The part of C22 the code keeps: the same for every record whose         *)
(* infrastructure block is a mapping.                                      *)
C22_HoldsForRecordsWithBlock ==
    \A i \in 1..Len(predict_calls) :
        LET call == predict_calls[i]
        IN  /\ (~call.result.raised /\ IsDict(call.arg.infrastructure_data)) =>
                  /\ CapabilityFollowsSignal(call, "has_power", "power_available",
                         "Power supply", "Install or repair power infrastructure")
                  /\ CapabilityFollowsSignal(call, "has_water", "water_available",
                         "Water supply", "Ensure reliable water access")
            /\ ~call.result.raised =>
                  /\ SeqRange(call.result.risk_factors) \subseteq RuleRiskFactors
                  /\ Len(call.result.predicted_needs) = Len(call.result.recommendations)


(* C23: in a returned detailed-analytics report total_staff equals the sum *)
(* of the per-type staff counts accumulated over all records, and          *)
(* facilities_with_staff equals the number of records whose own staff sum  *)
(* is positive.                                                            *)
RecordStaff(sub) ==
    IF BlockTruthy(sub.human_resources_data)
    THEN StaffLoop([count |-> 0, by_type |-> <<>>], sub.human_resources_data.items, 1)
    ELSE [count |-> 0, by_type |-> <<>>]

DictTotal(d) == SeqSum([i \in 1..Len(d) |-> d[i].v])

C23_TotalStaffIsSumOfTypes ==
    AnalyticsReturned =>
        LET subs == response.body.submissions
            hr == response.body.report.human_resources_analysis
        IN  /\ hr.total_staff = DictTotal(Scan(subs).staff_by_type)
            /\ hr.facilities_with_staff =
                  Cardinality({i \in 1..Len(subs) : RecordStaff(subs[i]).count > 0})

(* The part of C23 the code keeps: the two totals agree whenever no record *)
(* has a negative staff sum, and facilities_with_staff is always the       *)
(* number of records with a positive staff sum.                            *)
C23_HoldsWithoutNegativeSums ==
    AnalyticsReturned =>
        LET subs == response.body.submissions
            hr == response.body.report.human_resources_analysis
        IN  /\ (\A i \in 1..Len(subs) : RecordStaff(subs[i]).count >= 0)
                  => hr.total_staff = DictTotal(Scan(subs).staff_by_type)
            /\ hr.facilities_with_staff =
                  Cardinality({i \in 1..Len(subs) : RecordStaff(subs[i]).count > 0})


(* C24: analyze_patient_satisfaction averages the numeric-coercible values *)
(* of the block; it adds the below-average insight and recommendation      *)
(* exactly when the average is below 3.0, the above-average ones exactly   *)
(* when it is at least 4.0, never both; the four bucket counts sum to      *)
(* total_responses, the number of coercible values; and a block with no    *)
(* coercible value yields total_responses 0 and average 0.                 *)
SatisfactionReturned == response.op = "analyze_patient_satisfaction"

Coercible(v) ==
    \/ v.t \in {"int", "bool", "float"}
    \/ v.t = "str" /\ (~float_of_str(v.s).raised \/ float_is_nan(v.s))

CoercibleCount(block) ==
    Cardinality({i \in 1..Len(block.items) : Coercible(block.items[i].v)})

BucketTotal(d) == d.excellent + d.good + d.fair + d.poor

BelowAverageAdded(result) ==
    /\ result.insights = <<"Patient satisfaction is below average">>
    /\ result.recommendations = <<"Investigate service quality and patient experience">>

AboveAverageAdded(result) ==
    /\ result.insights = <<"Patient satisfaction is above average">>
    /\ result.recommendations = <<"Maintain current service standards">>

NothingAdded(result) == result.insights = <<>> /\ result.recommendations = <<>>

InsightsFollowAverage(block, result) ==
    LET scores == SurveyScores(block.items, 1)
        total == SeqSum(scores)
        n == Len(scores)
    IN  SurveyNans(block.items) = 0 =>
           IF n = 0 \/ total < 3 * Scale * n THEN BelowAverageAdded(result)
           ELSE IF total >= 4 * Scale * n THEN AboveAverageAdded(result)
           ELSE NothingAdded(result)

C24_SatisfactionBucketsAndInsights ==
    SatisfactionReturned =>
        LET block == response.body.block
            result == response.body.result
        IN  /\ "total_responses" \in DOMAIN result
            /\ "score_distribution" \in DOMAIN result
            /\ result.total_responses = CoercibleCount(block)
            /\ BucketTotal(result.score_distribution) = result.total_responses
            /\ CoercibleCount(block) = 0 => result.average_score = 0
            /\ InsightsFollowAverage(block, result)

(* The part of C24 the code keeps: the same for every non-empty block none *)
(* of whose values is the NaN.                                             *)
C24_HoldsForFiniteScores ==
    SatisfactionReturned =>
        LET block == response.body.block
            result == response.body.result
        IN  (BlockTruthy(block) /\ SurveyNans(block.items) = 0) =>
               /\ result.total_responses = CoercibleCount(block)
               /\ BucketTotal(result.score_distribution) = result.total_responses
               /\ CoercibleCount(block) = 0 => result.average_score = 0
               /\ InsightsFollowAverage(block, result)

(* A NaN among the answers is counted as a response and falls in no bucket. *)
C24_NanInNoBucket ==
    /\ SatisfactionReturned
    /\ response.body.block = Dict(<<KV("overall", VStr("nan"))>>)
    /\ response.body.result.total_responses = 1
    /\ BucketTotal(response.body.result.score_distribution) = 0


(* C25: in a returned detailed-analytics report the count of every entry   *)
(* of top_services_offered is the number of records that offer the         *)
(* service, a record with several keys of the same readable name counting  *)
(* once, and so never exceeds the number of records.                       *)
Offers(sub, service) ==
    /\ BlockTruthy(sub.services_data)
    /\ \E i \in 1..Len(sub.services_data.items) :
          LET item == sub.services_data.items[i]
          IN  /\ Readable(item.k) = service
              /\ item.v.t = "str"
              /\ str_lower(item.v.s) \in OfferedWords

C25_ServiceCountIsFacilityCount ==
    AnalyticsReturned =>
        LET subs == response.body.submissions
            top == response.body.report.services_utilization.top_services_offered
        IN  \A e \in SeqRange(top) :
                /\ e.count = Cardinality({i \in 1..Len(subs) : Offers(subs[i], e.k)})
                /\ e.count <= Len(subs)

(* The part of C25 the code keeps: the count is the number of keys, over   *)
(* all records, that offer the service; it is the facility count whenever  *)
(* no record has two offering keys of one readable name.                   *)
OfferingKeys(sub, service) ==
    IF BlockTruthy(sub.services_data)
    THEN Cardinality({i \in 1..Len(sub.services_data.items) :
            LET item == sub.services_data.items[i]
            IN  /\ Readable(item.k) = service
                /\ item.v.t = "str"
                /\ str_lower(item.v.s) \in OfferedWords})
    ELSE 0

C25_ServiceCountIsKeyCount ==
    AnalyticsReturned =>
        LET subs == response.body.submissions
            top == response.body.report.services_utilization.top_services_offered
        IN  \A e \in SeqRange(top) :
                e.count = SeqSum([i \in 1..Len(subs) |-> OfferingKeys(subs[i], e.k)])


(* C26: the staff total predict_facility_needs uses for its staffing rule  *)
(* equals the staff count the human-resources analysis of                  *)
(* get_detailed_analytics computes for the same block, so a record the     *)
(* report counts with 5 or more staff is never given "Insufficient         *)
(* staffing".                                                              *)
PredictStaffTotal(d) == StaffSum(0, d.human_resources_data.items, 1)

C26_StaffTotalsAgree ==
    \A i \in 1..Len(predict_calls) :
        LET call == predict_calls[i]
            counted == RecordStaff(call.arg).count
        IN  IsDict(call.arg.human_resources_data) =>
               /\ ~PredictStaffTotal(call.arg).raised
               /\ PredictStaffTotal(call.arg).n = counted
               /\ (~call.result.raised /\ counted >= MinStaff) =>
                     "Insufficient staffing" \notin SeqRange(call.result.risk_factors)

(* A record the report counts with 18 staff is given "Insufficient         *)
(* staffing": its total for the staffing rule is 2.                        *)
C26_CountedButFlagged ==
    \E i \in 1..Len(predict_calls) :
        LET call == predict_calls[i]
        IN  /\ ~call.result.raised
            /\ RecordStaff(call.arg).count = 18
            /\ PredictStaffTotal(call.arg).n = 2
            /\ "Insufficient staffing" \in SeqRange(call.result.risk_factors)


(* C27: for a record whose funding block is a mapping, get_detailed_-      *)
(* analytics counts the record in bhcpf_facilities exactly when            *)
(* predict_facility_needs does not give it the risk factor "Lack of        *)
(* funding".                                                               *)
CountedAsFunded(d) == AccFunding(EmptyAcc, d).bhcpf_facilities = 1

C27_FundingSignalsAgree ==
    \A i \in 1..Len(predict_calls) :
        LET call == predict_calls[i]
        IN  (~call.result.raised /\ IsDict(call.arg.funding_data)) =>
               (CountedAsFunded(call.arg)
                   <=> "Lack of funding" \notin SeqRange(call.result.risk_factors))

(* A record with bhcpf_status "Received" is not given "Lack of funding"    *)
(* and is not counted in bhcpf_facilities.                                 *)
C27_FundedButNotCounted ==
    \E i \in 1..Len(predict_calls) :
        LET call == predict_calls[i]
        IN  /\ ~call.result.raised
            /\ EqStr(BlockGet(call.arg.funding_data, "bhcpf_status"), "Received")
            /\ "Lack of funding" \notin SeqRange(call.result.risk_factors)
            /\ ~CountedAsFunded(call.arg)


(* C28: a data collector never obtains data derived from a submission of   *)
(* another collector: get_submissions and get_submission_stats answer from *)
(* the caller's own records only, and get_submission, update_submission    *)
(* and get_submission_insights on another collector's record end in 403.   *)
OthersRecord(u, id) ==
    LET i == FindById(store, id)
    IN  i # 0 /\ ~OwnedBy(u, store[i])

OwnOnly(u, submissions) ==
    \A i \in 1..Len(submissions) : OwnedBy(u, submissions[i])

OwnStats(u) ==
    LET Mine(sub) == OwnedBy(u, sub)
        own == SelectSeq(store, Mine)
    IN  SubmissionStats(Len(own), Len(SelectSeq(own, IsSynced)),
                        Len(SelectSeq(own, IsPending)))

CollectorSeesOwnOnly(u) ==
    /\ \A state \in StateFilters, lga \in LgaFilters, sync_status \in SyncFilters :
          \/ response'.op # "get_submissions"
          \/ ~get_submissions(u, state, lga, sync_status)
          \/ OwnOnly(u, response'.body.submissions)
    /\ \/ response'.op # "submission_stats"
       \/ ~get_submission_stats(u)
       \/ response'.body = OwnStats(u)
    /\ \A id \in SubmissionIds :
          OthersRecord(u, id) =>
             /\ response'.status = 403 \/ ~get_submission(u, id)
             /\ response'.status = 403 \/ ~update_submission(u, id, SyncedBody)
             /\ response'.status = 403 \/ ~get_submission_insights(u, id)

C28_CollectorsSeeOwnRecordsOnly ==
    [][\A u \in Collectors : CollectorSeesOwnOnly(u)]_vars

(* The part of C28 the code keeps: the same without the insights request.  *)
C28_HoldsOutsideInsights ==
    [][\A u \in Collectors :
          /\ \A state \in StateFilters, lga \in LgaFilters, sync_status \in SyncFilters :
                \/ response'.op # "get_submissions"
                \/ ~get_submissions(u, state, lga, sync_status)
                \/ OwnOnly(u, response'.body.submissions)
          /\ \/ response'.op # "submission_stats"
             \/ ~get_submission_stats(u)
             \/ response'.body = OwnStats(u)
          /\ \A id \in SubmissionIds :
                OthersRecord(u, id) =>
                   /\ response'.status = 403 \/ ~get_submission(u, id)
                   /\ response'.status = 403 \/ ~update_submission(u, id, SyncedBody)]_vars

(* The insights of a record filed by the other collector, with its         *)
(* facility name and predictions, are the answer to the last request.      *)
C28_InsightsOfOthersRecord ==
    /\ response.op = "submission_insights"
    /\ response.status = 200
    /\ Len(store) = 1
    /\ store[1].collector_id.n = OtherCollector.id
    /\ response.body.facility_name = store[1].facility_name


(* C29: under every interleaving of a dashboard overview or submission     *)
(* stats request with submit_form, update_submission and delete_submission *)
(* requests, the returned synced count is at most the returned total count *)
(* and the returned percentage lies within 0 and 100.                      *)
CountsReturned(r) ==
    requests[r].pc = "done" /\ requests[r].op \in CountOps

SyncedShare(req) ==
    IF req.op = "submission_stats" THEN req.result.body.sync_percentage
    ELSE req.result.body.synced_percentage

C29_SyncedWithinTotal ==
    \A r \in RequestIds :
        CountsReturned(r) =>
            /\ requests[r].result.body.synced_submissions
                  <= requests[r].result.body.total_submissions
            /\ 0 <= SyncedShare(requests[r])
            /\ SyncedShare(requests[r]) <= 100 * Scale

(* An overview counted one record, then a second record was filed and      *)
(* marked synced beside the first, and the overview returned 2 synced of 1 *)
(* in total, 200 percent.                                                  *)
C29_MoreSyncedThanTotal ==
    \E r \in RequestIds :
        /\ CountsReturned(r)
        /\ requests[r].op = "dashboard_overview"
        /\ requests[r].result.body.total_submissions = 1
        /\ requests[r].result.body.synced_submissions = 2
        /\ requests[r].result.body.synced_percentage = 200 * Scale

(* The part of C29 the code keeps: counts taken from one state of the      *)
(* table, as a request served with no writer beside it takes them, are     *)
(* consistent.                                                             *)
C29_HoldsForOneSnapshot ==
    response.op \in CountOps /\ response.status = 200 =>
        /\ response.body.synced_submissions <= response.body.total_submissions
        /\ response.body.pending_submissions <= response.body.total_submissions


\* C30: a form with a stored submission is never permanently deleted.  Under
\* every interleaving of delete_form with submit_form: the step that removes
\* a form from the store is taken when no stored submission has the form's
\* id as its form_id, and it leaves no such submission behind; no stored
\* submission names a form that has been removed; the permanent delete of a
\* form with submissions is answered with the 400 and changes neither the
\* forms nor the submissions; a delete that is not permanent sets is_deleted
\* and clears is_active and changes nothing else.
FormExists(table, form_id) == FormIndex(table, form_id) # 0
Removed(form_id) == form_id < forms.next_id /\ ~FormExists(forms, form_id)
HasSubmissions(submissions, form_id) == Len(SubmissionsOf(submissions, form_id)) > 0

RemovedWithoutSubmissions ==
    \A f \in FormIds :
        (FormExists(forms, f) /\ ~FormExists(forms', f))
            => (~HasSubmissions(store, f) /\ ~HasSubmissions(store', f) /\ store' = store)

NoSubmissionOfRemovedForm == \A f \in FormIds : Removed(f) => ~HasSubmissions(store, f)

RejectedLeavesUnchanged ==
    \A r \in RequestIds :
        (requests[r].pc = "count_submissions"
            /\ HasSubmissions(store, requests[r].acc.form_id)
            /\ requests'[r] # requests[r])
        => (requests'[r].result.status = 400 /\ store' = store /\ forms' = forms)

SoftDeleteSetsFlagsOnly ==
    \A r \in RequestIds :
        (requests[r].pc = "soft_delete" /\ requests'[r].pc = "done"
            /\ FormExists(forms, requests[r].acc.form_id))
        => LET i == FormIndex(forms, requests[r].acc.form_id)
           IN  /\ forms' = [forms EXCEPT !.rows[i] =
                      [@ EXCEPT !.is_deleted = TRUE, !.is_active = FALSE]]
               /\ store' = store

C30_FormWithSubmissionsIsKept ==
    /\ [][RemovedWithoutSubmissions]_vars
    /\ []NoSubmissionOfRemovedForm
    /\ [][RejectedLeavesUnchanged]_vars
    /\ [][SoftDeleteSetsFlagsOnly]_vars

\* The parts of C30 that hold in every interleaving: the rejection and the
\* soft delete.
C30_RejectionAndSoftDeleteHold ==
    /\ [][RejectedLeavesUnchanged]_vars
    /\ [][SoftDeleteSetsFlagsOnly]_vars

\* The two parts that fail, each on its own: a form is removed while a
\* stored submission refers to it, and a stored submission names a form
\* that is gone.
C30_RemovedOnlyWithoutSubmissions == [][RemovedWithoutSubmissions]_vars
C30_NoDanglingFormId == NoSubmissionOfRemovedForm

\* A form is removed while a submission stored after the count refers to it.
C30_RaceReached ==
    \E r \in RequestIds :
        /\ requests[r].pc = "delete_form"
        /\ HasSubmissions(store, requests[r].acc.form_id)
        /\ FormExists(forms, requests[r].acc.form_id)

=============================================================================
